---- MODULE Spec2Model ----
(***************************************************************************)
(* Smart-estimate engine of the task tracker: the rule-based similarity    *)
(* ranking of MockedAIService._find_similar_tasks, the aggregation of      *)
(* MockedAIService.generate_estimate, and the older query-based variant    *)
(* SimilarityService.calculate_estimate_suggestion.                        *)
(*                                                                         *)
(* Representation.  A Python str is a sequence of one-character strings,   *)
(* so that lower(), split() and strip() are computed and not assumed.      *)
(* A float confidence is an exact rational [num, den]; the value returned  *)
(* after round(x, 2) is an integer number of hundredths.  A datetime is an *)
(* integer tick; datetime.timestamp() is strictly increasing on the dates  *)
(* a task can carry, so comparing ticks compares timestamps.               *)
(***************************************************************************)
EXTENDS Integers, Sequences, FiniteSets, TLC

VARIABLES
    tasks,          \* rows of the Task table, in the order the store enumerates them
    now,            \* the clock read by auto_now
    pc,             \* "idle" or "done": a call has returned and its outcome is held
    op,             \* the entry point of the held call
    target,         \* id of the task the held call was made for
    limit,          \* the limit argument of the held call
    scored_tasks,   \* local scored_tasks of _find_similar_tasks after the sort:
                    \* (task, score) pairs, the task held by its id
    similar_tasks,  \* the list the ranker returned, each task held by its id
    estimates,      \* local estimates of the aggregation
    result,         \* the dictionary returned to the caller, or Nothing.result
    raised,         \* an exception left the entry point
    logged,         \* the except branch of generate_estimate ran
    probe,          \* one application of a helper on its own: its name, its
                    \* arguments and, once applied, what it returned
    previous,       \* what the call before the held one returned, when it was
                    \* made for the same target over the same store
    calls,          \* concurrent callers of generate_estimate: where each is,
                    \* its target and what it was returned
    frames,         \* the local variables of the calls in progress
    activities,     \* rows of the TaskActivity table, oldest first
    task_pre_save_state,  \* the module-level dict _task_pre_save_state of signals.py
    keys,           \* the key column of the Task table, row by row
    savers,         \* concurrent callers of Task.save: where each is and the
                    \* instance it saves
    operations,     \* rows of the AIOperation table, the id of a row its index
    queue,          \* the broker: operation ids handed to process_ai_async_task.delay
                    \* and not yet taken by a worker
    workers         \* the workers running process_ai_async_task: where each is
                    \* and its local operation

vars == <<tasks, now, pc, op, target, limit, scored_tasks, similar_tasks,
          estimates, result, raised, logged, probe, previous, calls, frames,
          activities, task_pre_save_state, keys, savers, operations, queue,
          workers>>

\* What the signal receivers of Task write.
signals == <<activities, task_pre_save_state>>

\* The concurrent callers.
concurrent == <<calls, frames>>

\* The saves and the AI operations in progress.
stepwise == <<savers, operations, queue, workers>>

\* What the operations on the store and the entry points leave alone.
aux == <<probe, previous, calls, frames, activities, task_pre_save_state, keys,
         savers, operations, queue, workers>>

\* None for a reference (assignee); a nullable integer is <<>> or <<n>>.
None == "None"
Null == <<>>
Some(n) == <<n>>
\* What is held where there is nothing yet: no result, no probe, no previous
\* result, no call in progress, no local variables.
Nothing ==
    [result |-> [kind |-> "none"],
     probe |-> [fn |-> "none"],
     previous |-> [kind |-> "none"],
     call |-> [pc |-> "idle"],
     frame |-> [all_tasks |-> <<>>, scored_tasks |-> <<>>]]

(***************************************************************************)
(* Bounds of the model.                                                    *)
(***************************************************************************)
MaxTasks == 3
MaxTime == 2
MaxLimit == 2
MaxCallers == 2
BulkTasks == 7
MaxSaved == 2
MaxActivities == 3
MaxEstimates == 3
MaxOperations == 2
MaxDeliveries == 2

Callers == 1..MaxCallers

(***************************************************************************)
(* Program constants.                                                      *)
(***************************************************************************)
DefaultLimit == 20
CitationLimit == 5

(***************************************************************************)
(* Text: str.lower(), str.split(), str.strip().                            *)
(***************************************************************************)
Uppers == <<"A","B","C","D","E","F","G","H","I","J","K","L","M",
            "N","O","P","Q","R","S","T","U","V","W","X","Y","Z">>
Lowers == <<"a","b","c","d","e","f","g","h","i","j","k","l","m",
            "n","o","p","q","r","s","t","u","v","w","x","y","z">>
Whitespace == {" ", "\t", "\n", "\r"}

LowerMap ==
    [c \in {Uppers[i] : i \in 1..Len(Uppers)} |->
        Lowers[CHOOSE i \in 1..Len(Uppers) : Uppers[i] = c]]

LowerChar(c) == IF c \in DOMAIN LowerMap THEN LowerMap[c] ELSE c

Lower(s) == [i \in 1..Len(s) |-> LowerChar(s[i])]

\* str.split() with no argument: the maximal runs of non-whitespace characters.
RECURSIVE SplitFrom(_, _, _)
SplitFrom(s, i, word) ==
    IF i > Len(s)
    THEN IF word = <<>> THEN <<>> ELSE <<word>>
    ELSE IF s[i] \in Whitespace
         THEN IF word = <<>>
              THEN SplitFrom(s, i + 1, <<>>)
              ELSE <<word>> \o SplitFrom(s, i + 1, <<>>)
         ELSE SplitFrom(s, i + 1, Append(word, s[i]))

Split(s) == SplitFrom(s, 1, <<>>)

ToSet(seq) == {seq[i] : i \in 1..Len(seq)}

\* set(text.lower().split())
WordSet(s) == ToSet(Split(Lower(s)))

Min(a, b) == IF a <= b THEN a ELSE b
Max(a, b) == IF a >= b THEN a ELSE b

(***************************************************************************)
(* MockedAIService._find_similar_tasks.                                    *)
(***************************************************************************)
\* Mutant: the query forgets exclude(id=task.id).
ExcludeNothing(rows, id) == rows

\* Task.objects.exclude(id=task.id): every stored row but the target's, in store order.
ExcludeId(rows, id) == SelectSeq(rows, LAMBDA r : r.id # id)

\* Mutant: the word-overlap points are not capped.
OverlapPointsUncapped(word_overlap, per_word, cap) == word_overlap * per_word

\* if word_overlap > 0: score += min(word_overlap * per_word, cap)
OverlapPoints(word_overlap, per_word, cap) ==
    IF word_overlap > 0 THEN Min(word_overlap * per_word, cap) ELSE 0

\* Mutant: the difference of the tag sets is taken for their intersection.
MissingTags(task_tags, candidate_tags) == task_tags \ candidate_tags

\* task_tags.intersection(candidate_tags)
OverlappingTags(task_tags, candidate_tags) == task_tags \cap candidate_tags

\* The score of one candidate (the body of the for loop).
SimilarityScore(task, candidate) ==
    LET assigneePoints ==
            IF task.assignee # None /\ candidate.assignee # None
               /\ task.assignee = candidate.assignee
            THEN 100 ELSE 0
        tagPoints ==
            IF task.tags # <<>> /\ candidate.tags # <<>>
            THEN Cardinality(OverlappingTags(ToSet(task.tags),
                                             ToSet(candidate.tags))) * 80
            ELSE 0
        titlePoints ==
            IF task.title # <<>> /\ candidate.title # <<>>
            THEN OverlapPoints(
                    Cardinality(WordSet(task.title) \cap WordSet(candidate.title)),
                    20, 60)
            ELSE 0
        descPoints ==
            IF task.description # <<>> /\ candidate.description # <<>>
            THEN OverlapPoints(
                    Cardinality(WordSet(task.description)
                                \cap WordSet(candidate.description)),
                    5, 40)
            ELSE 0
    IN assigneePoints + tagPoints + titlePoints + descPoints

\* Mutant: every candidate is appended, whatever its score.
ScoredWhateverScore(candidate, score) == <<[task |-> candidate, score |-> score]>>

\* if score > 0: scored_tasks.append((candidate_task, score))
Scored(candidate, score) ==
    IF score > 0 THEN <<[task |-> candidate, score |-> score]>> ELSE <<>>

\* The pairs appended to scored_tasks, in enumeration order: only score > 0.
RECURSIVE ScoreAll(_, _)
ScoreAll(task, all_tasks) ==
    IF all_tasks = <<>> THEN <<>>
    ELSE Scored(Head(all_tasks), SimilarityScore(task, Head(all_tasks)))
         \o ScoreAll(task, Tail(all_tasks))

\* Mutant: the sort key is the score alone.
KeyBeforeScoreOnly(a, b) == a.score > b.score

\* key=lambda x: (-x[1], -x[0].updated_at.timestamp()): a sorts strictly before b.
KeyBefore(a, b) ==
    \/ a.score > b.score
    \/ a.score = b.score /\ a.task.updated_at > b.task.updated_at

\* list.sort is stable: an element goes after every element whose key is not larger.
InsertScored(sorted, x) ==
    SelectSeq(sorted, LAMBDA e : ~KeyBefore(x, e))
    \o <<x>>
    \o SelectSeq(sorted, LAMBDA e : KeyBefore(x, e))

RECURSIVE SortScored(_)
SortScored(pairs) ==
    IF pairs = <<>> THEN <<>>
    ELSE InsertScored(SortScored(SubSeq(pairs, 1, Len(pairs) - 1)), pairs[Len(pairs)])

\* The Python slice seq[:n]: a negative n counts from the end.
Take(seq, n) ==
    IF n >= 0 THEN SubSeq(seq, 1, Min(n, Len(seq)))
    ELSE SubSeq(seq, 1, Max(Len(seq) + n, 0))

\* scored_tasks after line 329.
Ranking(task, rows) == SortScored(ScoreAll(task, ExcludeId(rows, task.id)))

\* Mutant: the slice is off by one, scored_tasks[:limit + 1].
TopTasksOffByOne(scored, n) == [i \in 1..Len(Take(scored, n + 1)) |-> scored[i].task]

\* [task for task, score in scored_tasks[:limit]]
TopTasks(scored, n) == [i \in 1..Len(Take(scored, n)) |-> scored[i].task]

(***************************************************************************)
(* Aggregation: statistics.median, _calculate_estimate_confidence,         *)
(* _generate_estimate_rationale.                                           *)
(***************************************************************************)
\* [t for t in similar_tasks if t.estimate is not None]
WithEstimates(similar) == SelectSeq(similar, LAMBDA t : t.estimate # Null)

EstimatesOf(withEst) == [i \in 1..Len(withEst) |-> withEst[i].estimate[1]]

InsertInt(sorted, x) ==
    SelectSeq(sorted, LAMBDA e : e <= x) \o <<x>> \o SelectSeq(sorted, LAMBDA e : e > x)

RECURSIVE SortInts(_)
SortInts(xs) ==
    IF xs = <<>> THEN <<>>
    ELSE InsertInt(SortInts(SubSeq(xs, 1, Len(xs) - 1)), xs[Len(xs)])

\* statistics.median as the rational [num, den]: data[n//2] for an odd count (an
\* int), (data[n//2 - 1] + data[n//2]) / 2 for an even count (a float).
MedianOfSorted(data, n) ==
    IF n % 2 = 1
    THEN [num |-> data[(n \div 2) + 1], den |-> 1]
    ELSE [num |-> data[n \div 2] + data[(n \div 2) + 1], den |-> 2]

Median(xs) == MedianOfSorted(SortInts(xs), Len(xs))

\* int(x) of a non-negative rational: truncation.
IntOf(q) == q.num \div q.den

RECURSIVE Sum(_)
Sum(xs) == IF xs = <<>> THEN 0 ELSE Head(xs) + Sum(Tail(xs))

RECURSIVE MaxOf(_)
MaxOf(xs) == IF Len(xs) = 1 THEN xs[1] ELSE Max(Head(xs), MaxOf(Tail(xs)))

Squares(xs) == [i \in 1..Len(xs) |-> xs[i] * xs[i]]

\* statistics.variance (the sample variance, divisor n - 1) as [num, den], n > 1:
\* sum((x - mean)^2) / (n - 1) = (n * sum(x^2) - sum(x)^2) / (n * (n - 1)).
VarianceOf(n, sum, sumSquares) ==
    [num |-> n * sumSquares - sum * sum, den |-> n * (n - 1)]

Variance(xs) == VarianceOf(Len(xs), Sum(xs), Sum(Squares(xs)))

\* estimate_variance / max_variance raises ZeroDivisionError when max(estimates) is 0.
ConfidenceRaises(ests) ==
    Len(ests) > 1 /\ MaxOf(ests) * MaxOf(ests) = 0

\* Mutant: the confidence is capped at 1.0.
CapConfidenceAtOne(q) ==
    IF q.num > q.den THEN [num |-> 1, den |-> 1] ELSE q

\* min(final_confidence, 0.95) on rationals.
CapConfidence(q) ==
    IF q.num * 100 > 95 * q.den THEN [num |-> 95, den |-> 100] ELSE q

\* Mutant: the clock leaks into the context factor.
FixedFactorsWithClock(n, total_similar_tasks) ==
    650 + 30 * Min(n, 5) + 10 * Min(total_similar_tasks + now, 10)

\* base + count factor + context factor, in thousandths:
\* 0.65 + min(n / 5, 1) * 0.15 + min(total / 10, 1) * 0.10
FixedFactors(n, total_similar_tasks) ==
    650 + 30 * Min(n, 5) + 10 * Min(total_similar_tasks, 10)

\* consistency_factor = (1.0 - min(estimate_variance / max_variance, 1.0)) * 0.10
\* as a fraction, for max_variance > 0.
ConsistencyOf(variance, max_variance) ==
    [num |-> 100 * (variance.den * max_variance
                    - Min(variance.num, variance.den * max_variance)),
     den |-> 1000 * variance.den * max_variance]

\* fixed/1000 + consistency, over the denominator of consistency (a multiple of
\* 1000).
PlusThousandths(fixed, consistency) ==
    [num |-> fixed * (consistency.den \div 1000) + consistency.num,
     den |-> consistency.den]

\* fixed/1000 + (1 - min(variance / max_variance, 1)) * 0.10 over one denominator
WithConsistency(fixed, variance, max_variance) ==
    PlusThousandths(fixed, ConsistencyOf(variance, max_variance))

\* Lines 355-360: the consistency factor of a non-empty list of estimates, or the
\* ZeroDivisionError of line 358.
ConsistencyFactor(ests) ==
    IF Len(ests) > 1
    THEN (IF ConfidenceRaises(ests)
          THEN [raised |-> TRUE]
          ELSE [raised |-> FALSE,
                value |-> ConsistencyOf(Variance(ests), MaxOf(ests) * MaxOf(ests))])
    ELSE [raised |-> FALSE, value |-> [num |-> 50, den |-> 1000]]

\* _calculate_estimate_confidence, where it does not raise.
EstimateConfidence(ests, total_similar_tasks) ==
    IF Len(ests) = 0 THEN [num |-> 40, den |-> 100]
    ELSE IF Len(ests) = 1
    THEN CapConfidence([num |-> FixedFactors(1, total_similar_tasks) + 50,
                        den |-> 1000])
    ELSE CapConfidence(WithConsistency(FixedFactors(Len(ests), total_similar_tasks),
                                       Variance(ests),
                                       MaxOf(ests) * MaxOf(ests)))

\* round(x, 2) in hundredths.  A value that is exactly halfway between two
\* hundredths is not a binary float: the float next to it rounds to either side.
Round2(q) ==
    LET scaled == q.num * 100
        lo == scaled \div q.den
        rem2 == 2 * (scaled % q.den)
    IN IF rem2 < q.den THEN {lo}
       ELSE IF rem2 > q.den THEN {lo + 1}
       ELSE {lo, lo + 1}

\* The level words of _generate_estimate_rationale: >= 0.8 high, >= 0.6 medium.
EstimateLevel(q) ==
    IF q.num * 10 >= 8 * q.den THEN "high"
    ELSE IF q.num * 10 >= 6 * q.den THEN "medium"
    ELSE "low"

\* str() of the median inside the f-string: an int for an odd count, a float else.
MedianText(q) ==
    IF q.den = 1 THEN ToString(q.num)
    ELSE ToString(q.num \div 2) \o (IF q.num % 2 = 0 THEN ".0" ELSE ".5")

NoEstimatesText == "No similar tasks found with estimates. Suggesting default 3 points."
UnavailableText == "Unable to generate estimate at this time."

\* The text of lines 385-397 around the level word.
EstimateRationaleText(estimate_count, median_estimate, level) ==
    "Based on " \o ToString(estimate_count) \o " similar task"
    \o (IF estimate_count > 1 THEN "s" ELSE "")
    \o ", median estimate is " \o MedianText(median_estimate) \o " points"
    \o " (" \o level \o " confidence)"

EstimateRationale(estimate_count, median_estimate, confidence) ==
    IF estimate_count = 0 THEN NoEstimatesText
    ELSE EstimateRationaleText(estimate_count, median_estimate,
                               EstimateLevel(confidence))

\* Mutant: the no-data branch suggests 0 points.
FallbackZeroPoints ==
    [suggested_points |-> 0, confidence |-> 40, similar_task_ids |-> <<>>,
     rationale |-> "No similar tasks found with estimates. Suggesting default 3 points."]

\* The dictionary of lines 89-94.
FallbackResult ==
    [suggested_points |-> 3, confidence |-> 40, similar_task_ids |-> <<>>,
     rationale |-> NoEstimatesText]

\* The dictionary of lines 120-125.
ErrorResult ==
    [suggested_points |-> 3, confidence |-> 40, similar_task_ids |-> <<>>,
     rationale |-> UnavailableText]

\* Mutant: every similar task is cited.
SimilarTaskIdsAll(similar) == [i \in 1..Len(similar) |-> similar[i].id]

\* [str(t.id) for t in similar_tasks[:5]]
SimilarTaskIds(similar) ==
    [i \in 1..Len(Take(similar, CitationLimit)) |-> similar[i].id]

\* round() is a function: when the held call rounded the confidence of the same
\* estimates and the same number of similar tasks, this call rounds it the same way.
RoundAsHeld(rounded, ests, total_similar_tasks) ==
    IF /\ Cardinality(rounded) = 2
       /\ pc = "done"
       /\ op = "estimate"
       /\ ~raised
       /\ ~logged
       /\ estimates = ests
       /\ Len(similar_tasks) = total_similar_tasks
       /\ result.confidence \in rounded
    THEN {result.confidence}
    ELSE rounded

\* The dictionaries of lines 111-116, one for each value in rounded.
ResultsOf(estimate_count, median_estimate, confidence, similar_task_ids, rounded) ==
    { [suggested_points |-> IntOf(median_estimate),
       confidence |-> c,
       similar_task_ids |-> similar_task_ids,
       rationale |-> EstimateRationale(estimate_count, median_estimate, confidence)]
      : c \in rounded }

DataResultsWith(similar, ests, confidence) ==
    ResultsOf(Len(ests), Median(ests), confidence, SimilarTaskIds(similar),
              RoundAsHeld(Round2(confidence), ests, Len(similar)))

\* Lines 96-116 of generate_estimate.
DataResults(similar, ests) ==
    DataResultsWith(similar, ests, EstimateConfidence(ests, Len(similar)))

(***************************************************************************)
(* Task.save of a new task: full_clean, then the row is stored.            *)
(***************************************************************************)
RECURSIVE LStrip(_)
LStrip(s) == IF s # <<>> /\ Head(s) \in Whitespace THEN LStrip(Tail(s)) ELSE s

RECURSIVE RStrip(_)
RStrip(s) ==
    IF s # <<>> /\ s[Len(s)] \in Whitespace THEN RStrip(SubSeq(s, 1, Len(s) - 1)) ELSE s

Strip(s) == LStrip(RStrip(s))

\* validate_task_title does not raise.
ValidTitle(title) == title # <<>> /\ Strip(title) # <<>> /\ Len(Strip(title)) >= 3

\* validate_task_estimate does not raise.
ValidEstimate(estimate) ==
    IF estimate = Null THEN TRUE ELSE estimate[1] >= 0 /\ estimate[1] <= 100

\* The fields a caller chooses for a task.
Texts ==
    [ TitleFixABC |-> <<"F","i","x"," ","a"," ","b"," ","c">>,
      TitleFixLong |-> <<"f","i","x"," ","A","\t","B"," "," ","C"," ","d">>,
      TitleAddX |-> <<"a","d","d","\n","x">>,
      TitleFix |-> <<"F","I","X">>,
      TitleShort |-> <<" ","a","b"," ">>,
      DescNine |-> <<"a"," ","b"," ","c"," ","d"," ","e"," ","f"," ","g"," ","h"," ","i">>,
      DescTen |-> <<"A"," ","B"," ","C"," ","D"," ","E"," ","F"," ","G"," ","H"," ","I"," ","j">>,
      DescBlank |-> <<" "," ">>,
      DescAB |-> <<"a"," ","b">> ]

RichInputs ==
    { [title |-> Texts.TitleFixABC, description |-> Texts.DescNine, assignee |-> "u1",
       tags |-> <<"api", "ui">>, estimate |-> Some(5), status |-> "TODO"],
      [title |-> Texts.TitleFixLong, description |-> Texts.DescTen, assignee |-> "u1",
       tags |-> <<"api", "api">>, estimate |-> Null, status |-> "IN_PROGRESS"],
      [title |-> Texts.TitleAddX, description |-> Texts.DescBlank, assignee |-> "u2",
       tags |-> <<"ui", "api", "db">>, estimate |-> Some(3), status |-> "TODO"],
      [title |-> Texts.TitleFix, description |-> Texts.DescAB, assignee |-> None,
       tags |-> <<>>, estimate |-> Some(0), status |-> "DONE"],
      [title |-> Texts.TitleShort, description |-> <<>>, assignee |-> "u1",
       tags |-> <<>>, estimate |-> Some(5), status |-> "TODO"],
      [title |-> Texts.TitleFix, description |-> <<>>, assignee |-> "u1",
       tags |-> <<>>, estimate |-> Some(101), status |-> "TODO"],
      [title |-> Texts.TitleFix, description |-> <<>>, assignee |-> "u1",
       tags |-> <<>>, estimate |-> Null, status |-> "DONE"] }

BulkInputs ==
    { [title |-> Texts.TitleFix, description |-> <<>>, assignee |-> "u2",
       tags |-> <<>>, estimate |-> e, status |-> "TODO"]
      : e \in {Null, Some(0), Some(5)} }

\* Mutant: Task.clean without the rule for DONE.
DoneUnchecked(status, estimate) == TRUE

\* Task.clean: a task marked DONE carries an estimate.
DoneHasEstimate(status, estimate) ==
    IF status = "DONE" THEN estimate # Null ELSE TRUE

\* full_clean does not raise: the field validators and Task.clean.
FullCleanPasses(instance) ==
    /\ ValidTitle(instance.title)
    /\ ValidEstimate(instance.estimate)
    /\ DoneHasEstimate(instance.status, instance.estimate)

\* A row of TaskActivity.
Activity(task, type, field, before, after) ==
    [task |-> task, type |-> type, field |-> field, before |-> before, after |-> after]

\* ActivityService.log_task_creation
LogTaskCreation(task) == Activity(task, "CREATED", "", Null, Null)

\* The rows of the table with primary key pk.
RowsWithPk(rows, pk) == SelectSeq(rows, LAMBDA r : r.id = pk)

\* task_pre_save: the primary key is a uuid4 default, set before the first save,
\* so the receiver runs for new tasks too; Task.objects.get finds the stored row,
\* or raises DoesNotExist and None is kept.
TaskPreSave(state, pk, found) ==
    [k \in DOMAIN state \cup {pk} |->
        IF k = pk THEN (IF found = <<>> THEN Null ELSE <<found[1]>>) ELSE state[k]]

\* The codes of the projects: three letters each (validate_project_code).
ProjectCodes == <<"PRJ", "API">>

\* Task._generate_task_key: the keys that start with the prefix of the project,
\* the highest number among them (0 when there is none) plus one.  A key
\* f"{code}-{number}" is held as its two parts: a code has no dash, so that
\* key.split('-', 1)[1] is the number as it was formatted.
GenerateTaskKey(existing_keys, code) ==
    LET numbers == {existing_keys[k].number :
                       k \in {j \in DOMAIN existing_keys : existing_keys[j].code = code}}
        max_number == IF numbers = {} THEN 0
                      ELSE CHOOSE n \in numbers : \A o \in numbers : o <= n
    IN  [code |-> code, number |-> max_number + 1]

\* Task.objects.create(**fields): a fresh id, the key generated for the project,
\* updated_at from auto_now; pre_save and post_save run around the insert.  A task
\* that full_clean rejects is not stored.
CreateTask(inputs, cap) ==
    /\ pc = "idle"
    /\ Len(tasks) < cap
    /\ \E f \in inputs :
          /\ FullCleanPasses(f)
          /\ tasks' = Append(tasks,
                [id |-> Len(tasks) + 1, title |-> f.title,
                 description |-> f.description, status |-> f.status,
                 assignee |-> f.assignee, tags |-> f.tags,
                 estimate |-> f.estimate, updated_at |-> now])
    /\ task_pre_save_state' =
          TaskPreSave(task_pre_save_state, Len(tasks) + 1,
                      RowsWithPk(tasks, Len(tasks) + 1))
    /\ activities' = Append(activities, LogTaskCreation(Len(tasks) + 1))
    /\ keys' = Append(keys, GenerateTaskKey(keys, ProjectCodes[1]))
    /\ UNCHANGED <<now, pc, op, target, limit, scored_tasks, similar_tasks,
                   estimates, result, raised, logged>>
    /\ UNCHANGED <<probe, previous, calls, frames>>
    /\ UNCHANGED stepwise

\* ActivityService.TRACKED_FIELDS, in the order of the dict.
TRACKED_FIELDS == <<"status", "assignee", "estimate", "description">>

\* The activity type ActivityService.TRACKED_FIELDS gives a tracked field.
ActivityTypeOf(field_name) ==
    CASE field_name = "status" -> "UPDATED_STATUS"
      [] field_name = "assignee" -> "UPDATED_ASSIGNEE"
      [] field_name = "estimate" -> "UPDATED_ESTIMATE"
      [] field_name = "description" -> "UPDATED_DESCRIPTION"

\* ActivityService._serialize_field_value: None stays null, a user becomes the
\* dict of its id, username and email (all three are attributes of the one user
\* row, which the id stands for here), every other value is kept.
SerializeFieldValue(field_name, value) ==
    IF field_name = "assignee"
    THEN (IF value = None THEN Null ELSE [id |-> value])
    ELSE value

\* Mutant: the pair of a change holds the new value twice.
ChangeTupleOfNew(old_value, new_value) == [before |-> new_value, after |-> new_value]

\* changes[field_name] = (old_value, new_value)
ChangeTuple(old_value, new_value) == [before |-> old_value, after |-> new_value]

\* ActivityService.detect_field_changes: the tracked fields whose values differ,
\* in the order of TRACKED_FIELDS, each with its pair of values.
RECURSIVE DetectFrom(_, _, _)
DetectFrom(k, old_instance, new_instance) ==
    IF k > Len(TRACKED_FIELDS) THEN <<>>
    ELSE IF old_instance[TRACKED_FIELDS[k]] # new_instance[TRACKED_FIELDS[k]]
         THEN <<[field |-> TRACKED_FIELDS[k],
                 values |-> ChangeTuple(old_instance[TRACKED_FIELDS[k]],
                                        new_instance[TRACKED_FIELDS[k]])]>>
              \o DetectFrom(k + 1, old_instance, new_instance)
         ELSE DetectFrom(k + 1, old_instance, new_instance)

DetectFieldChanges(old_instance, new_instance) == DetectFrom(1, old_instance, new_instance)

\* ActivityService.log_field_changes: one TaskActivity per entry of changes.
LogFieldChanges(task, changes) ==
    [k \in 1..Len(changes) |->
        Activity(task, ActivityTypeOf(changes[k].field), changes[k].field,
                 SerializeFieldValue(changes[k].field, changes[k].values.before),
                 SerializeFieldValue(changes[k].field, changes[k].values.after))]

\* task_post_save of an update: the activities the receiver writes from the
\* original that task_pre_save kept.
PostSaveActivities(state, instance) ==
    IF state[instance.id] = Null THEN <<>>
    ELSE LogFieldChanges(instance.id, DetectFieldChanges(state[instance.id][1], instance))

\* task_post_save of an update: the entry of the task is deleted.
CleanedUp(state, pk) == [k \in DOMAIN state \ {pk} |-> state[k]]

\* What a caller changes on a loaded task before it saves it.
SavePatches ==
    { [status |-> "DONE"],
      [status |-> "IN_PROGRESS"],
      [estimate |-> Null],
      [estimate |-> Some(8)],
      [assignee |-> None],
      [assignee |-> "u2"],
      [description |-> Texts.DescBlank],
      [title |-> Texts.TitleFixLong],
      [title |-> Texts.TitleFix, tags |-> <<"db">>],
      [status |-> "DONE", assignee |-> "u1", estimate |-> Some(3),
       description |-> Texts.DescAB, title |-> Texts.TitleAddX],
      [title |-> Texts.TitleShort],
      [estimate |-> Some(101)] }

\* The loaded task with the caller's changes.
Patched(stored, patch) ==
    [f \in DOMAIN stored |-> IF f \in DOMAIN patch THEN patch[f] ELSE stored[f]]

\* What the caller of save holds: the row as it was loaded, the instance that was
\* saved and the number of activities there were.
SaveCall(stored, instance) ==
    [kind |-> "save", stored |-> stored, instance |-> instance,
     activity_count |-> Len(activities)]

\* Task.save of a loaded task (it has its key): full_clean raises ValidationError
\* and nothing is written, or the row is updated with updated_at from auto_now and
\* task_pre_save and task_post_save run around the update.
SaveTask ==
    /\ pc = "idle"
    /\ Len(activities) < MaxActivities
    /\ \E i \in 1..Len(tasks), patch \in SavePatches :
         LET instance == Patched(tasks[i], patch)
             kept == TaskPreSave(task_pre_save_state, tasks[i].id,
                                 RowsWithPk(tasks, tasks[i].id))
         IN  /\ target' = tasks[i].id
             /\ result' = SaveCall(tasks[i], instance)
             /\ IF FullCleanPasses(instance)
                THEN /\ raised' = FALSE
                     /\ tasks' = [tasks EXCEPT ![i] = [instance EXCEPT !.updated_at = now]]
                     /\ activities' = activities \o PostSaveActivities(kept, instance)
                     /\ task_pre_save_state' = CleanedUp(kept, instance.id)
                ELSE /\ raised' = TRUE
                     /\ UNCHANGED <<tasks, activities, task_pre_save_state>>
    /\ pc' = "done"
    /\ op' = "save"
    /\ UNCHANGED <<now, limit, scored_tasks, similar_tasks, estimates, logged>>
    /\ UNCHANGED <<probe, previous, calls, frames, keys>>
    /\ UNCHANGED stepwise

\* The fields callers choose for the tasks that are saved again.
SaveInputs == {f \in RichInputs : f.status = "DONE" \/ f.title = Texts.TitleFixABC}

CreateSaved == CreateTask(SaveInputs, MaxSaved)

\* Task.save of a new task that full_clean rejects: ValidationError, nothing is
\* written and no signal is sent.
CreateRejected ==
    /\ pc = "idle"
    /\ Len(tasks) < MaxSaved
    /\ \E f \in SaveInputs :
         /\ ~FullCleanPasses(f)
         /\ result' = [kind |-> "create", instance |-> f]
    /\ pc' = "done"
    /\ op' = "create"
    /\ raised' = TRUE
    /\ UNCHANGED <<tasks, now, target, limit, scored_tasks, similar_tasks,
                   estimates, logged>>
    /\ UNCHANGED aux

Create == CreateTask(RichInputs, MaxTasks)

CreateBulk == CreateTask(BulkInputs, BulkTasks)

\* Time passes between two saves.
Tick ==
    /\ pc = "idle"
    /\ now < MaxTime
    /\ now' = now + 1
    /\ UNCHANGED <<tasks, pc, op, target, limit, scored_tasks, similar_tasks,
                   estimates, result, raised, logged>>
    /\ UNCHANGED aux

TaskById(id) == tasks[CHOOSE i \in 1..Len(tasks) : tasks[i].id = id]

(***************************************************************************)
(* Task.save step by step, for callers that save at the same time: the     *)
(* key generation, full_clean, the pre_save receiver, the INSERT or UPDATE *)
(* and the post_save receiver are separate accesses to the store and to    *)
(* the module-level dict, and another save can run between any two.        *)
(***************************************************************************)
\* A row as Task.save would store it at time 1.
RowOf(f, id) ==
    [id |-> id, title |-> f.title, description |-> f.description,
     status |-> f.status, assignee |-> f.assignee, tags |-> f.tags,
     estimate |-> f.estimate, updated_at |-> 1]

\* The caller is adding a task.
Creating(p) == savers[p].pc # "idle" /\ savers[p].created

\* Task.save is called, for a new task of a project (a fresh uuid4 as its id, no
\* key yet: _generate_task_key reads the stored keys) or for a stored task the
\* caller has loaded and changed (it has its key).
CallSave(p) ==
    /\ savers[p].pc = "idle"
    /\ Len(activities) < MaxActivities
    /\ \/ /\ Len(tasks) + Cardinality({q \in Callers : Creating(q)}) < MaxSaved
          /\ \E f \in {g \in BulkInputs : g.estimate = Null}, c \in DOMAIN ProjectCodes :
               savers' = [savers EXCEPT ![p] =
                  [pc |-> "full_clean", created |-> TRUE,
                   instance |->
                      RowOf(f, CHOOSE n \in 1..(MaxSaved + MaxCallers) :
                                  /\ RowsWithPk(tasks, n) = <<>>
                                  /\ \A q \in Callers :
                                        Creating(q) => savers[q].instance.id # n),
                   key |-> GenerateTaskKey(keys, ProjectCodes[c]),
                   replaced |-> Null]]
       \/ \E i \in 1..Len(tasks),
             patch \in SavePatches \cap {[status |-> "IN_PROGRESS"], [estimate |-> Some(8)]} :
               savers' = [savers EXCEPT ![p] =
                  [pc |-> "full_clean", created |-> FALSE,
                   instance |-> Patched(tasks[i], patch), key |-> keys[i],
                   replaced |-> Null]]
    /\ UNCHANGED <<tasks, now, pc, op, target, limit, scored_tasks, similar_tasks,
                   estimates, result, raised, logged>>
    /\ UNCHANGED <<probe, previous, calls, frames, activities, task_pre_save_state,
                   keys, operations, queue, workers>>

\* self.full_clean(): the validators and Task.clean, and the uniqueness of the
\* key among the stored rows for a task that is being added; ValidationError
\* leaves save.
FullClean(p) ==
    /\ savers[p].pc = "full_clean"
    /\ savers' = [savers EXCEPT ![p].pc =
          IF /\ FullCleanPasses(savers[p].instance)
             /\ savers[p].created => \A k \in DOMAIN keys : keys[k] # savers[p].key
          THEN "pre_save" ELSE "raised"]
    /\ UNCHANGED <<tasks, now, pc, op, target, limit, scored_tasks, similar_tasks,
                   estimates, result, raised, logged>>
    /\ UNCHANGED <<probe, previous, calls, frames, activities, task_pre_save_state,
                   keys, operations, queue, workers>>

\* task_pre_save(instance): the stored row, or None, goes into the shared dict
\* under the pk.
PreSave(p) ==
    /\ savers[p].pc = "pre_save"
    /\ task_pre_save_state' =
          TaskPreSave(task_pre_save_state, savers[p].instance.id,
                      RowsWithPk(tasks, savers[p].instance.id))
    /\ savers' = [savers EXCEPT ![p].pc = "write"]
    /\ UNCHANGED <<tasks, now, pc, op, target, limit, scored_tasks, similar_tasks,
                   estimates, result, raised, logged>>
    /\ UNCHANGED <<probe, previous, calls, frames, activities, keys, operations,
                   queue, workers>>

\* super().save(): the INSERT of a new task, which the constraint unique_task_key
\* rejects with IntegrityError when a stored row has the key; the UPDATE of every
\* column of a stored one, updated_at from auto_now.  The saver keeps the row its
\* UPDATE replaced.
WriteRow(p) ==
    /\ savers[p].pc = "write"
    /\ IF savers[p].created
       THEN IF \E k \in DOMAIN keys : keys[k] = savers[p].key
            THEN /\ savers' = [savers EXCEPT ![p].pc = "raised"]
                 /\ UNCHANGED <<tasks, keys>>
            ELSE /\ tasks' = Append(tasks, [savers[p].instance EXCEPT !.updated_at = now])
                 /\ keys' = Append(keys, savers[p].key)
                 /\ savers' = [savers EXCEPT ![p].pc = "post_save"]
       ELSE LET i == CHOOSE j \in 1..Len(tasks) : tasks[j].id = savers[p].instance.id
            IN  /\ tasks' = [tasks EXCEPT ![i] =
                                [savers[p].instance EXCEPT !.updated_at = now]]
                /\ savers' = [savers EXCEPT ![p].pc = "post_save",
                                            ![p].replaced = <<tasks[i]>>]
                /\ UNCHANGED keys
    /\ UNCHANGED <<now, pc, op, target, limit, scored_tasks, similar_tasks,
                   estimates, result, raised, logged>>
    /\ UNCHANGED <<probe, previous, calls, frames, activities, task_pre_save_state,
                   operations, queue, workers>>

\* task_post_save(instance, created): the creation is logged; or the changes from
\* the original that _task_pre_save_state.get(pk) returns, when it returns one,
\* are logged and the entry of the pk, when there is one, is deleted.
PostSave(p) ==
    /\ savers[p].pc = "post_save"
    /\ IF savers[p].created
       THEN /\ activities' = Append(activities, LogTaskCreation(savers[p].instance.id))
            /\ UNCHANGED task_pre_save_state
       ELSE /\ activities' = activities \o
                  (IF savers[p].instance.id \in DOMAIN task_pre_save_state
                   THEN PostSaveActivities(task_pre_save_state, savers[p].instance)
                   ELSE <<>>)
            /\ task_pre_save_state' = CleanedUp(task_pre_save_state, savers[p].instance.id)
    /\ savers' = [savers EXCEPT ![p].pc = "saved"]
    /\ UNCHANGED <<tasks, now, pc, op, target, limit, scored_tasks, similar_tasks,
                   estimates, result, raised, logged>>
    /\ UNCHANGED <<probe, previous, calls, frames, keys, operations, queue, workers>>

\* save has returned, or raised, and the caller goes on.
ReturnSave(p) ==
    /\ savers[p].pc \in {"saved", "raised"}
    /\ savers' = [savers EXCEPT ![p] = Nothing.call]
    /\ UNCHANGED <<tasks, now, pc, op, target, limit, scored_tasks, similar_tasks,
                   estimates, result, raised, logged>>
    /\ UNCHANGED <<probe, previous, calls, frames, activities, task_pre_save_state,
                   keys, operations, queue, workers>>

(***************************************************************************)
(* AI operations: smart_summary_view creates the AIOperation row and hands *)
(* its id to the broker; workers run process_ai_async_task on the ids the  *)
(* broker delivers.  A worker holds its own copy of the row between the    *)
(* get and the saves, and save writes every column of that copy.           *)
(***************************************************************************)
\* smart_summary_view: the row is created PENDING (result null, error_message
\* blank, completed_at null); process_ai_async_task.delay puts its id on the
\* queue, or raises when the broker cannot be reached: the exception leaves the
\* view and the row stays as it was created.
SmartSummaryView ==
    /\ Len(operations) < MaxOperations
    /\ operations' = Append(operations,
          [status |-> "PENDING", result |-> Null, error_message |-> "",
           completed_at |-> Null])
    /\ \E enqueued \in BOOLEAN :
          queue' = IF enqueued
                   THEN Append(queue, [operation_id |-> Len(operations) + 1, delivery |-> 1])
                   ELSE queue
    /\ UNCHANGED <<tasks, now, pc, op, target, limit, scored_tasks, similar_tasks,
                   estimates, result, raised, logged>>
    /\ UNCHANGED <<probe, previous, calls, frames, activities, task_pre_save_state,
                   keys, savers, workers>>

\* process_ai_async_task, lines 14-16: a worker takes a message, gets the row,
\* sets PROCESSING on its copy and saves it.
StartProcessing(w) ==
    /\ workers[w].pc = "idle"
    /\ \E i \in DOMAIN queue :
          /\ queue' = [k \in 1..(Len(queue) - 1) |->
                          IF k < i THEN queue[k] ELSE queue[k + 1]]
          /\ workers' = [workers EXCEPT ![w] =
                [pc |-> "processing", message |-> queue[i], redelivered |-> FALSE,
                 operation |-> [operations[queue[i].operation_id]
                                   EXCEPT !.status = "PROCESSING"]]]
          /\ operations' = [operations EXCEPT ![queue[i].operation_id] =
                [operations[queue[i].operation_id] EXCEPT !.status = "PROCESSING"]]
    /\ UNCHANGED <<tasks, now, pc, op, target, limit, scored_tasks, similar_tasks,
                   estimates, result, raised, logged>>
    /\ UNCHANGED <<probe, previous, calls, frames, activities, task_pre_save_state,
                   keys, savers>>

\* The broker delivers at least once: a message that a worker has taken and not
\* finished is put on the queue again.  The task has no guard against it.
Redeliver(w) ==
    /\ workers[w].pc = "processing"
    /\ ~workers[w].redelivered
    /\ workers[w].message.delivery < MaxDeliveries
    /\ queue' = Append(queue, [workers[w].message EXCEPT !.delivery = @ + 1])
    /\ workers' = [workers EXCEPT ![w].redelivered = TRUE]
    /\ UNCHANGED <<tasks, now, pc, op, target, limit, scored_tasks, similar_tasks,
                   estimates, result, raised, logged>>
    /\ UNCHANGED <<probe, previous, calls, frames, activities, task_pre_save_state,
                   keys, savers, operations>>

\* process_ai_async_task, lines 19-36: the service returned; COMPLETED, the result
\* and completed_at are set on the worker's copy, which is saved.
CompleteOperation(w) ==
    /\ workers[w].pc = "processing"
    /\ operations' = [operations EXCEPT ![workers[w].message.operation_id] =
          [workers[w].operation EXCEPT !.status = "COMPLETED",
                                       !.result = <<"summary">>,
                                       !.completed_at = Some(now)]]
    /\ workers' = [workers EXCEPT ![w] = Nothing.call]
    /\ UNCHANGED <<tasks, now, pc, op, target, limit, scored_tasks, similar_tasks,
                   estimates, result, raised, logged>>
    /\ UNCHANGED <<probe, previous, calls, frames, activities, task_pre_save_state,
                   keys, savers, queue>>

\* process_ai_async_task, lines 38-45: the try block raised; the row is got
\* again, FAILED and the message of the exception are set on it and it is saved.
FailOperation(w) ==
    /\ workers[w].pc = "processing"
    /\ operations' = [operations EXCEPT ![workers[w].message.operation_id] =
          [operations[workers[w].message.operation_id]
              EXCEPT !.status = "FAILED", !.error_message = "error"]]
    /\ workers' = [workers EXCEPT ![w] = Nothing.call]
    /\ UNCHANGED <<tasks, now, pc, op, target, limit, scored_tasks, similar_tasks,
                   estimates, result, raised, logged>>
    /\ UNCHANGED <<probe, previous, calls, frames, activities, task_pre_save_state,
                   keys, savers, queue>>

(***************************************************************************)
(* The entry points.                                                       *)
(***************************************************************************)
\* Mutant: the rows that were read are saved again, and auto_now stamps them.
AfterTouch(rows) == [i \in 1..Len(rows) |-> [rows[i] EXCEPT !.updated_at = now]]

\* The Task table after the entry point ran: it issues one SELECT (line 288) and
\* no save, create, update or delete.
AfterQuery(rows) == rows

\* A list of Task objects, and scored_tasks, as the state holds them.
RECURSIVE IdsOf(_)
IdsOf(rows) == IF rows = <<>> THEN <<>> ELSE <<Head(rows).id>> \o IdsOf(Tail(rows))

RECURSIVE ScoredRefs(_)
ScoredRefs(scored) ==
    IF scored = <<>> THEN <<>>
    ELSE <<[id |-> Head(scored).task.id, score |-> Head(scored).score]>>
         \o ScoredRefs(Tail(scored))

\* _find_similar_tasks(task, limit) called on its own, limit drawn from limits.
FindReturnsWithin(task, scored, limits) ==
    /\ \E n \in limits :
          /\ limit' = n
          /\ similar_tasks' = IdsOf(TopTasks(scored, n))
    /\ target' = task.id
    /\ scored_tasks' = ScoredRefs(scored)
    /\ pc' = "done"
    /\ op' = "find"
    /\ estimates' = <<>>
    /\ result' = Nothing.result
    /\ raised' = FALSE
    /\ logged' = FALSE
    /\ tasks' = AfterQuery(tasks)
    /\ UNCHANGED now
    /\ UNCHANGED aux

FindReturns(task, scored) == FindReturnsWithin(task, scored, 0..MaxLimit)

FindSimilarTasks ==
    /\ pc = "idle"
    /\ \E i \in 1..Len(tasks) : FindReturns(tasks[i], Ranking(tasks[i], tasks))

\* _find_similar_tasks(task, limit) with a negative limit: nothing checks the
\* argument, and scored_tasks[:limit] drops entries from the end.
FindSimilarTasksNegativeLimit ==
    /\ pc = "idle"
    /\ \E i \in 1..Len(tasks) :
          FindReturnsWithin(tasks[i], Ranking(tasks[i], tasks), (-MaxLimit)..(-1))

\* A call whose first statement raised: nothing was computed.
RaisedFrom(entry) ==
    /\ pc' = "done"
    /\ op' = entry
    /\ target' = 0
    /\ scored_tasks' = <<>>
    /\ similar_tasks' = <<>>
    /\ estimates' = <<>>
    /\ result' = Nothing.result
    /\ raised' = TRUE
    /\ logged' = FALSE
    /\ UNCHANGED <<tasks, now>>
    /\ UNCHANGED aux

\* _find_similar_tasks(None, limit): task.id at line 288 raises AttributeError.
FindSimilarTasksNone ==
    /\ pc = "idle"
    /\ \E n \in 0..MaxLimit : limit' = n
    /\ RaisedFrom("find_none")

\* generate_estimate(None): task.id at line 288 raises AttributeError inside the
\* try; the except branch evaluates task.id for its log message at line 119,
\* which raises AttributeError again, out of the handler and to the caller.
GenerateEstimateNone ==
    /\ pc = "idle"
    /\ limit' = DefaultLimit
    /\ RaisedFrom("estimate_none")

\* Mutant: no except branch, the ZeroDivisionError reaches the caller.
AggregateUncaught(similar, ests) ==
    /\ similar_tasks' = IdsOf(similar)
    /\ estimates' = ests
    /\ logged' = FALSE
    /\ IF ests = <<>>
       THEN result' = FallbackResult /\ raised' = FALSE
       ELSE IF ConfidenceRaises(ests)
       THEN result' = Nothing.result /\ raised' = TRUE
       ELSE result' \in DataResults(similar, ests) /\ raised' = FALSE

\* What lines 85-125 can return for the ranked list similar.
Outcomes(similar, ests) ==
    IF ests = <<>> THEN {FallbackResult}
    ELSE IF ConfidenceRaises(ests) THEN {ErrorResult}
    ELSE DataResults(similar, ests)

\* Lines 85-116 of generate_estimate, and the except branch when they raise.
Aggregate(similar, ests) ==
    /\ similar_tasks' = IdsOf(similar)
    /\ estimates' = ests
    /\ raised' = FALSE
    /\ result' \in Outcomes(similar, ests)
    /\ logged' = (ests # <<>> /\ ConfidenceRaises(ests))

AggregateSimilar(similar) == Aggregate(similar, EstimatesOf(WithEstimates(similar)))

\* generate_estimate(task).  dbUp = FALSE: the candidate query raises.
EstimateReturns(task, scored) ==
    /\ target' = task.id
    /\ \E dbUp \in BOOLEAN :
          IF ~dbUp
          THEN /\ scored_tasks' = <<>>
               /\ similar_tasks' = <<>>
               /\ estimates' = <<>>
               /\ result' = ErrorResult
               /\ logged' = TRUE
               /\ raised' = FALSE
          ELSE /\ scored_tasks' = ScoredRefs(scored)
               /\ AggregateSimilar(TopTasks(scored, DefaultLimit))
    /\ pc' = "done"
    /\ op' = "estimate"
    /\ limit' = DefaultLimit
    /\ tasks' = AfterQuery(tasks)

GenerateEstimate ==
    /\ pc = "idle"
    /\ \E i \in 1..Len(tasks) : EstimateReturns(tasks[i], Ranking(tasks[i], tasks))
    /\ UNCHANGED now
    /\ UNCHANGED aux

\* The candidate query of the held call raised.
QueryFailed == logged /\ estimates = <<>>

\* generate_estimate(task) called a second time, now or later, for the target of
\* the held call and with the store as it was.
GenerateEstimateAgain ==
    /\ pc = "done"
    /\ op = "estimate"
    /\ previous' = [result |-> result, failed |-> QueryFailed]
    /\ now' \in now..MaxTime
    /\ EstimateReturns(TaskById(target), Ranking(TaskById(target), tasks))
    /\ UNCHANGED probe
    /\ UNCHANGED concurrent
    /\ UNCHANGED signals
    /\ UNCHANGED keys
    /\ UNCHANGED stepwise

(***************************************************************************)
(* generate_estimate called by several callers at once, one step at a      *)
(* time: the query, the scoring loop with the sort, the aggregation.       *)
(***************************************************************************)
\* Mutant: the lists are kept on one shared object instead of in the call.
SharedFrame(p) == 1

\* all_tasks and scored_tasks are local variables: each call has its own.
FrameOf(p) == p

InFlight(p) == calls[p].pc \in {"called", "fetched", "scored"}

Quiet == \A p \in Callers : calls[p].pc = "idle"

ConcurrentUnchanged ==
    UNCHANGED <<tasks, now, pc, op, target, limit, scored_tasks, similar_tasks,
                estimates, result, raised, logged, probe, previous,
                activities, task_pre_save_state, keys, savers, operations,
                queue, workers>>

RowsOf(ids) == [i \in 1..Len(ids) |-> TaskById(ids[i])]

\* A caller enters generate_estimate(task) for a target no other caller holds.
CallGenerateEstimate(p) ==
    /\ calls[p].pc = "idle"
    /\ \E i \in 1..Len(tasks) :
          /\ \A q \in Callers : calls[q].pc # "idle" => calls[q].target # tasks[i].id
          /\ calls' = [q \in Callers |->
                IF q = p
                THEN [pc |-> "called", target |-> tasks[i].id,
                      overlapped |-> \E r \in Callers : InFlight(r)]
                ELSE IF InFlight(q) THEN [calls[q] EXCEPT !.overlapped = TRUE]
                ELSE calls[q]]
    /\ UNCHANGED frames
    /\ ConcurrentUnchanged

\* What a caller is handed: a dictionary, and whether the query had failed.
Handed(call, failed, dict) ==
    [pc |-> "done", target |-> call.target, overlapped |-> call.overlapped,
     failed |-> failed, result |-> dict]

\* Line 288: all_tasks = list(Task.objects.exclude(id=task.id)...), or the query
\* raises and the except branch answers.
FetchCandidates(p) ==
    /\ calls[p].pc = "called"
    /\ \E dbUp \in BOOLEAN :
          IF dbUp
          THEN /\ frames' = [frames EXCEPT ![FrameOf(p)].all_tasks =
                                IdsOf(ExcludeId(tasks, calls[p].target))]
               /\ calls' = [calls EXCEPT ![p].pc = "fetched"]
          ELSE /\ calls' = [calls EXCEPT ![p] = Handed(calls[p], TRUE, ErrorResult)]
               /\ UNCHANGED frames
    /\ ConcurrentUnchanged

\* Lines 291-329: the scoring loop over all_tasks and the sort.
ScoreCandidates(p) ==
    /\ calls[p].pc = "fetched"
    /\ frames' = [frames EXCEPT ![FrameOf(p)].scored_tasks =
            ScoredRefs(SortScored(ScoreAll(TaskById(calls[p].target),
                                           RowsOf(frames[FrameOf(p)].all_tasks))))]
    /\ calls' = [calls EXCEPT ![p].pc = "scored"]
    /\ ConcurrentUnchanged

ReturnFrom(p, similar) ==
    \E dict \in Outcomes(similar, EstimatesOf(WithEstimates(similar))) :
        calls' = [calls EXCEPT ![p] = Handed(calls[p], FALSE, dict)]

\* Lines 332 and 85-125: the slice, the aggregation and the return; the locals
\* of the call are gone afterwards.
ReturnEstimate(p) ==
    /\ calls[p].pc = "scored"
    /\ ReturnFrom(p, RowsOf(Take(IdsOf(frames[FrameOf(p)].scored_tasks),
                                 DefaultLimit)))
    /\ frames' = [frames EXCEPT ![FrameOf(p)] = Nothing.frame]
    /\ ConcurrentUnchanged

\* The caller takes its result.
CollectEstimate(p) ==
    /\ calls[p].pc = "done"
    /\ calls' = [calls EXCEPT ![p] = Nothing.call]
    /\ UNCHANGED frames
    /\ ConcurrentUnchanged

\* The store changes only while no call is in progress.
PairInputs == {f \in BulkInputs : f.estimate # Null}

CreateQuiet == Quiet /\ CreateTask(PairInputs, MaxTasks)

(***************************************************************************)
(* SimilarityService: the query-based variant (tasks/services.py).         *)
(***************************************************************************)
\* needle occurs in hay as a contiguous run.
Contains(hay, needle) ==
    \E k \in 0..(Len(hay) - Len(needle)) :
        \A j \in 1..Len(needle) : hay[k + j] = needle[j]

\* field__icontains=needle
IContains(hay, needle) == Contains(Lower(hay), Lower(needle))

\* The Q object is non-empty: some similarity condition was added.
HasConditions(task) ==
    \/ task.assignee # None
    \/ task.tags # <<>>
    \/ task.title # <<>> /\ Len(Strip(task.title)) >= 3
    \/ task.description # <<>> /\ Len(Strip(task.description)) >= 5

\* The row satisfies the OR of the conditions added for task.
MatchesConditions(task, row) ==
    \/ task.assignee # None /\ row.assignee = task.assignee
    \/ task.tags # <<>> /\ ToSet(task.tags) \cap ToSet(row.tags) # {}
    \/ /\ task.title # <<>>
       /\ Len(Strip(task.title)) >= 3
       /\ IContains(row.title, Take(Strip(task.title), 20))
    \/ /\ task.description # <<>>
       /\ Len(Strip(task.description)) >= 5
       /\ IContains(row.description, Take(Strip(task.description), 40))

\* order_by('-updated_at'); rows with equal updated_at keep the store's order.
InsertByUpdated(sorted, x) ==
    SelectSeq(sorted, LAMBDA e : e.updated_at >= x.updated_at)
    \o <<x>>
    \o SelectSeq(sorted, LAMBDA e : e.updated_at < x.updated_at)

RECURSIVE OrderByUpdated(_)
OrderByUpdated(rows) ==
    IF rows = <<>> THEN <<>>
    ELSE InsertByUpdated(OrderByUpdated(SubSeq(rows, 1, Len(rows) - 1)), rows[Len(rows)])

\* SimilarityService.find_similar_tasks(task, limit)
QuerySimilarTasks(task, rows, n) ==
    IF HasConditions(task)
    THEN Take(OrderByUpdated(SelectSeq(ExcludeId(rows, task.id),
                                       LAMBDA r : MatchesConditions(task, r))), n)
    ELSE <<>>

\* SimilarityService._calculate_confidence, where it does not raise.
CalculateConfidence(ests, total_similar_tasks) ==
    IF Len(ests) = 0 THEN [num |-> 40, den |-> 100]
    ELSE IF Len(ests) = 1
    THEN CapConfidence([num |-> FixedFactors(1, total_similar_tasks) + 50,
                        den |-> 1000])
    ELSE CapConfidence(WithConsistency(FixedFactors(Len(ests), total_similar_tasks),
                                       Variance(ests),
                                       MaxOf(ests) * MaxOf(ests)))

\* The level words of SimilarityService._generate_rationale: >= 0.80, >= 0.65.
RationaleLevel(q) ==
    IF q.num * 100 >= 80 * q.den THEN "high"
    ELSE IF q.num * 100 >= 65 * q.den THEN "medium"
    ELSE "low"

\* SimilarityService._generate_rationale
\* The f-strings of lines 311-314 around confidence_level.
GenerateRationaleText(estimate_count, median_estimate, confidence_level) ==
    IF estimate_count = 1
    THEN "Based on 1 similar task with estimate " \o ToString(IntOf(median_estimate))
         \o ". Confidence: " \o confidence_level \o "."
    ELSE "Based on median of " \o ToString(estimate_count)
         \o " similar tasks (median: " \o ToString(IntOf(median_estimate))
         \o " points). Confidence: " \o confidence_level \o "."

GenerateRationale(estimate_count, median_estimate, confidence) ==
    IF estimate_count = 0 THEN NoEstimatesText
    ELSE GenerateRationaleText(estimate_count, median_estimate,
                               RationaleLevel(confidence))

\* The dictionaries of lines 249-254 of tasks/services.py.
SuggestionsOf(estimate_count, median_estimate, confidence, similar_task_ids) ==
    { [suggested_points |-> IntOf(median_estimate),
       confidence |-> c,
       similar_task_ids |-> similar_task_ids,
       rationale |-> GenerateRationale(estimate_count, median_estimate, confidence)]
      : c \in Round2(confidence) }

\* Lines 222-254 of calculate_estimate_suggestion; nothing catches ZeroDivisionError.
SuggestFrom(similar, ests) ==
    /\ similar_tasks' = IdsOf(similar)
    /\ estimates' = ests
    /\ IF ests = <<>>
       THEN result' = FallbackResult /\ raised' = FALSE
       ELSE IF ConfidenceRaises(ests)
       THEN result' = Nothing.result /\ raised' = TRUE
       ELSE /\ result' \in SuggestionsOf(Len(ests), Median(ests),
                                         CalculateConfidence(ests, Len(similar)),
                                         SimilarTaskIds(similar))
            /\ raised' = FALSE

SuggestFromSimilar(similar) == SuggestFrom(similar, EstimatesOf(WithEstimates(similar)))

\* SimilarityService.calculate_estimate_suggestion(task)
CalculateEstimateSuggestion ==
    /\ pc = "idle"
    /\ \E i \in 1..Len(tasks) :
          /\ target' = tasks[i].id
          /\ SuggestFromSimilar(QuerySimilarTasks(tasks[i], tasks, DefaultLimit))
    /\ pc' = "done"
    /\ op' = "suggest"
    /\ limit' = DefaultLimit
    /\ scored_tasks' = <<>>
    /\ logged' = FALSE
    /\ UNCHANGED <<tasks, now>>
    /\ UNCHANGED aux

\* The caller takes the outcome.
Respond ==
    /\ pc = "done"
    /\ pc' = "idle"
    /\ op' = "none"
    /\ target' = 0
    /\ limit' = 0
    /\ scored_tasks' = <<>>
    /\ similar_tasks' = <<>>
    /\ estimates' = <<>>
    /\ result' = Nothing.result
    /\ raised' = FALSE
    /\ logged' = FALSE
    /\ previous' = Nothing.previous
    /\ UNCHANGED <<tasks, now, probe>>
    /\ UNCHANGED concurrent
    /\ UNCHANGED signals
    /\ UNCHANGED keys
    /\ UNCHANGED stepwise

\* An empty Task table and no call in progress.
NoCalls ==
    /\ tasks = <<>>
    /\ now = 1
    /\ pc = "idle"
    /\ op = "none"
    /\ target = 0
    /\ limit = 0
    /\ scored_tasks = <<>>
    /\ similar_tasks = <<>>
    /\ estimates = <<>>
    /\ result = Nothing.result
    /\ raised = FALSE
    /\ logged = FALSE
    /\ previous = Nothing.previous
    /\ calls = [p \in Callers |-> Nothing.call]
    /\ frames = [p \in Callers |-> Nothing.frame]
    /\ activities = <<>>
    /\ task_pre_save_state = <<>>
    /\ keys = <<>>
    /\ savers = [p \in Callers |-> Nothing.call]
    /\ operations = <<>>
    /\ queue = <<>>
    /\ workers = [p \in Callers |-> Nothing.call]

Init == NoCalls /\ probe = Nothing.probe

Next ==
    \/ Create
    \/ Tick
    \/ FindSimilarTasks
    \/ GenerateEstimate
    \/ CalculateEstimateSuggestion
    \/ Respond

Spec == Init /\ [][Next]_vars

NextBulk ==
    \/ CreateBulk
    \/ GenerateEstimate
    \/ CalculateEstimateSuggestion
    \/ Respond

SpecBulk == Init /\ [][NextBulk]_vars

\* generate_estimate called repeatedly over a store that does not change
\* between the calls.
NextRepeat ==
    \/ Create
    \/ Tick
    \/ GenerateEstimate
    \/ GenerateEstimateAgain
    \/ Respond

SpecRepeat == Init /\ [][NextRepeat]_vars

\* Concurrent callers of generate_estimate over a store that does not change
\* while a call is in progress.
NextConcurrent ==
    \/ CreateQuiet
    \/ \E p \in Callers :
          \/ CallGenerateEstimate(p)
          \/ FetchCandidates(p)
          \/ ScoreCandidates(p)
          \/ ReturnEstimate(p)
          \/ CollectEstimate(p)

SpecConcurrent == Init /\ [][NextConcurrent]_vars

\* Tasks are created and saved again, one save at a time.
NextSave == CreateSaved \/ CreateRejected \/ SaveTask \/ Respond

SpecSave == Init /\ [][NextSave]_vars

\* Callers that create and save tasks at the same time.
SpecInterleaved ==
    Init /\ [][\E p \in Callers :
                 \/ CallSave(p)
                 \/ FullClean(p)
                 \/ PreSave(p)
                 \/ WriteRow(p)
                 \/ PostSave(p)
                 \/ ReturnSave(p)]_vars

\* The views create operations and the workers keep running: a worker takes a
\* queued message when there is one, and a task that has started comes to its
\* end, in the try block or in the except block.
SpecOperations ==
    /\ Init
    /\ [][\/ SmartSummaryView
          \/ \E w \in Callers :
                \/ StartProcessing(w)
                \/ Redeliver(w)
                \/ CompleteOperation(w)
                \/ FailOperation(w)]_vars
    /\ \A w \in Callers :
          /\ WF_vars(StartProcessing(w))
          /\ WF_vars(CompleteOperation(w) \/ FailOperation(w))

\* Calls outside the programming contract.
NextMisuse ==
    \/ Create
    \/ Tick
    \/ FindSimilarTasksNegativeLimit
    \/ FindSimilarTasksNone
    \/ GenerateEstimateNone
    \/ Respond

SpecMisuse == Init /\ [][NextMisuse]_vars

(***************************************************************************)
(* The rationale composers applied on their own, to any confidence in      *)
(* hundredths and an estimate count of at least 1.                         *)
(***************************************************************************)
\* What a helper returned, next to the arguments it was applied to.
Applied(name, out) ==
    [fn |-> name, args |-> probe, out |-> out]

Unprobed ==
    UNCHANGED <<tasks, now, pc, op, target, limit, scored_tasks, similar_tasks,
                estimates, result, raised, logged, previous, calls, frames,
                activities, task_pre_save_state, keys, savers, operations,
                queue, workers>>

\* MockedAIService._generate_estimate_rationale(estimate_count, median, confidence)
ApplyEstimateRationale ==
    /\ probe.fn = "rationale_input"
    /\ probe' = Applied("_generate_estimate_rationale",
                         EstimateRationale(probe.estimate_count,
                                           probe.median_estimate, probe.confidence))
    /\ Unprobed

\* SimilarityService._generate_rationale(estimate_count, median, confidence)
ApplyGenerateRationale ==
    /\ probe.fn = "rationale_input"
    /\ probe' = Applied("_generate_rationale",
                         GenerateRationale(probe.estimate_count,
                                           probe.median_estimate, probe.confidence))
    /\ Unprobed

(***************************************************************************)
(* The score of a candidate, and of the same candidate carrying one more   *)
(* of the target's tags.                                                   *)
(***************************************************************************)
\* The score of the candidate as it is, and with tag appended to its tags.
ApplySimilarityScore ==
    /\ probe.fn = "score_input"
    /\ probe.tag \in ToSet(probe.task.tags) \ ToSet(probe.candidate.tags)
    /\ probe' = Applied("similarity_score",
            [without |-> SimilarityScore(probe.task, probe.candidate),
             with |-> SimilarityScore(probe.task,
                        [probe.candidate EXCEPT !.tags = Append(@, probe.tag)])])
    /\ Unprobed

(***************************************************************************)
(* The consistency factor on its own, applied to lists of estimates.       *)
(***************************************************************************)
\* _calculate_estimate_confidence, lines 355-360, on the estimates of the probe.
ApplyConsistencyFactor ==
    /\ probe.fn = "consistency_input"
    /\ probe' = Applied("consistency_factor", ConsistencyFactor(probe.estimates))
    /\ Unprobed

\* What a call gave: the value it returned, or that it raised.
ReturnedOrRaised(raises, value) ==
    IF raises THEN [raised |-> TRUE] ELSE [raised |-> FALSE, value |-> value]

\* MockedAIService._calculate_estimate_confidence(estimates, total_similar_tasks)
ApplyEstimateConfidence ==
    /\ probe.fn = "confidence_input"
    /\ probe' = Applied("_calculate_estimate_confidence",
                         ReturnedOrRaised(ConfidenceRaises(probe.estimates),
                                          EstimateConfidence(probe.estimates, probe.total)))
    /\ Unprobed

\* SimilarityService._calculate_confidence, on the estimates and on the identical
\* estimates of the probe, with the same number of similar tasks.
ApplyCalculateConfidence ==
    /\ probe.fn = "confidence_input"
    /\ probe' = Applied("_calculate_confidence",
            [estimates |-> ReturnedOrRaised(ConfidenceRaises(probe.estimates),
                              CalculateConfidence(probe.estimates, probe.total)),
             identical |-> ReturnedOrRaised(ConfidenceRaises(probe.identical),
                              CalculateConfidence(probe.identical, probe.total))])
    /\ Unprobed

\* Lines 98-116 of generate_estimate for the estimates of total ranked candidates
\* (the ids left out), where the confidence does not raise.
ApplyEstimateResult ==
    /\ probe.fn = "confidence_input"
    /\ ~ConfidenceRaises(probe.estimates)
    /\ \E r \in ResultsOf(Len(probe.estimates), Median(probe.estimates),
                          EstimateConfidence(probe.estimates, probe.total), <<>>,
                          Round2(EstimateConfidence(probe.estimates, probe.total))) :
          probe' = Applied("generate_estimate", r)
    /\ Unprobed

\* Lines 236-254 of calculate_estimate_suggestion for the same arguments.
ApplySuggestionResult ==
    /\ probe.fn = "confidence_input"
    /\ ~ConfidenceRaises(probe.estimates)
    /\ \E r \in SuggestionsOf(Len(probe.estimates), Median(probe.estimates),
                              CalculateConfidence(probe.estimates, probe.total), <<>>) :
          probe' = Applied("calculate_estimate_suggestion", r)
    /\ Unprobed

\* _find_similar_tasks(task) over the rows as stored, and over the same rows as
\* the query of line 288 enumerates them in the order of the probe.
ApplyFindSimilarTasks ==
    /\ probe.fn = "ranking_input"
    /\ probe' = Applied("_find_similar_tasks",
            [stored |-> IdsOf(TopTasks(Ranking(probe.rows[1], probe.rows), DefaultLimit)),
             enumerated |->
                IdsOf(TopTasks(Ranking(probe.rows[1],
                                       [i \in 1..4 |-> probe.rows[probe.enumeration[i]]]),
                               DefaultLimit))])
    /\ Unprobed

(***************************************************************************)
(* The helpers on their own: each is applied once to arguments drawn at    *)
(* the start.                                                              *)
(***************************************************************************)
\* The arguments the helpers are applied to: a rationale composer gets an
\* estimate count of at least 1, a median and a confidence in hundredths; the
\* scorer gets two rows Task.clean accepts and a tag; the consistency factor gets
\* a non-empty list of estimates; a confidence function gets such a list, a list
\* of as many identical estimates and a number of similar tasks that is at least
\* their number and at most the default limit; the ranker gets a target (id 1),
\* three candidates and an order in which the store enumerates the four rows.
HelperInputs ==
    LET storable == {f \in RichInputs : FullCleanPasses(f)}
        tagLists == {<<>>, <<"api">>, <<"ui", "db">>, <<"zz">>, <<"api", "api">>}
        estimateLists == UNION {[1..n -> {0, 1, 3, 5, 8}] : n \in 1..MaxEstimates}
        longLists == {<<8, 8, 8, 8>>, <<8, 8, 8, 5>>, <<5, 5, 5, 5, 5, 5>>,
                      <<1, 3, 5, 8, 3, 5>>}
    IN  { [fn |-> "rationale_input", estimate_count |-> c[1], median_estimate |-> c[2],
           confidence |-> [num |-> n, den |-> 100]]
          : c \in {<<1, [num |-> 3, den |-> 1]>>, <<2, [num |-> 7, den |-> 2]>>,
                    <<3, [num |-> 5, den |-> 1]>>},
            n \in 0..100 }
        \cup
        { [fn |-> "score_input", task |-> RowOf(t, 1), candidate |-> RowOf(c, 2),
           tag |-> g]
          : t \in storable,
            c \in {[r EXCEPT !.tags = tags] : r \in storable, tags \in tagLists},
            g \in {"api", "ui", "db"} }
        \cup
        { [fn |-> "consistency_input", estimates |-> e] : e \in estimateLists }
        \cup
        { [fn |-> "confidence_input", estimates |-> e,
           identical |-> [k \in 1..Len(e) |-> v], total |-> IF m = 0 THEN Len(e) ELSE m]
          : e \in estimateLists \cup longLists, v \in {0, 5, 8}, m \in {0, 10, 20} }
        \cup
        { [fn |-> "ranking_input",
           rows |-> [i \in 1..4 |->
                       [RowOf(CHOOSE f \in BulkInputs : f.estimate = Null, i)
                           EXCEPT !.assignee = IF i = 1 THEN "u2" ELSE k[i - 1][1],
                                  !.updated_at = IF i = 1 THEN 1 ELSE k[i - 1][2]]],
           enumeration |-> e]
          : k \in [1..3 -> {"u1", "u2"} \X {1, 2}],
            e \in {q \in [1..4 -> 1..4] : \A i, j \in 1..4 : q[i] = q[j] => i = j} }

InitHelpers == NoCalls /\ probe \in HelperInputs

NextHelpers ==
    \/ ApplyEstimateRationale
    \/ ApplyGenerateRationale
    \/ ApplySimilarityScore
    \/ ApplyConsistencyFactor
    \/ ApplyEstimateConfidence
    \/ ApplyCalculateConfidence
    \/ ApplyEstimateResult
    \/ ApplySuggestionResult
    \/ ApplyFindSimilarTasks

SpecHelpers == InitHelpers /\ [][NextHelpers]_vars

(***************************************************************************)
(* Properties.                                                             *)
(***************************************************************************)
Returned(entry) == pc = "done" /\ op = entry

Ids(rows) == {rows[i].id : i \in 1..Len(rows)}

\* C1: the list returned by _find_similar_tasks(T) never contains T, and neither
\* does similar_task_ids of generate_estimate(T) or of
\* calculate_estimate_suggestion(T); T is left out by its id, whatever it would
\* score against itself.
C1_SelfExcluded ==
    /\ (Returned("find") \/ Returned("estimate") \/ Returned("suggest")) =>
          /\ target \in Ids(tasks)
          /\ target \notin ToSet(similar_tasks)
          /\ \A i \in 1..Len(scored_tasks) : scored_tasks[i].id # target
    /\ Returned("estimate") => target \notin ToSet(result.similar_task_ids)
    /\ (Returned("suggest") /\ ~raised) => target \notin ToSet(result.similar_task_ids)

\* C1 witness: T scores above 0 against itself, a stored task with the same field
\* values as T is returned, and T is not.
C1_Witness ==
    /\ Returned("find")
    /\ SimilarityScore(TaskById(target), TaskById(target)) > 0
    /\ \E i \in 1..Len(similar_tasks) :
          /\ similar_tasks[i] # target
          /\ [TaskById(similar_tasks[i]) EXCEPT !.id = target] = TaskById(target)
    /\ target \notin ToSet(similar_tasks)

\* C2: the confidence generate_estimate returns is exactly 0.40 or lies in
\* [0.65, 0.95]; it is never above 0.95.
C2_ConfidenceBounds ==
    Returned("estimate") =>
        \/ result.confidence = 40
        \/ result.confidence >= 65 /\ result.confidence <= 95

\* C2 witness: five equal estimates among six ranked candidates, where the factors
\* add up to 0.96 and the returned confidence is 0.95.
C2_Witness ==
    /\ Returned("estimate")
    /\ Len(estimates) = 5
    /\ \A i \in 1..Len(estimates) : estimates[i] = estimates[1]
    /\ Len(similar_tasks) = 6
    /\ result.confidence = 95

\* C3: similar_task_ids of generate_estimate and of calculate_estimate_suggestion
\* has at most 5 entries.
C3_BoundedCitation ==
    ((Returned("estimate") \/ Returned("suggest")) /\ ~raised) =>
        Len(result.similar_task_ids) <= 5

\* C3 witness: more than 5 candidates are ranked and exactly 5 are cited.
C3_Witness ==
    /\ Returned("estimate")
    /\ Len(similar_tasks) > 5
    /\ Len(result.similar_task_ids) = 5

\* C4: when no ranked candidate carries an estimate, generate_estimate returns
\* exactly 3 points, confidence 0.40, no similar_task_ids and the fixed rationale.
C4_FallbackWithoutEstimates ==
    (/\ Returned("estimate")
     /\ ~logged
     /\ \A i \in 1..Len(similar_tasks) : TaskById(similar_tasks[i]).estimate = Null) =>
        result = [suggested_points |-> 3, confidence |-> 40,
                  similar_task_ids |-> <<>>,
                  rationale |->
                    "No similar tasks found with estimates. Suggesting default 3 points."]

\* C4 witness: similar tasks were ranked, none carries an estimate, and the
\* fallback was returned.
C4_Witness ==
    /\ Returned("estimate")
    /\ ~logged
    /\ Len(similar_tasks) >= 2
    /\ \A i \in 1..Len(similar_tasks) : TaskById(similar_tasks[i]).estimate = Null
    /\ result.suggested_points = 3
    /\ result.similar_task_ids = <<>>

\* C5: when a step inside generate_estimate raises, no exception reaches the
\* caller and the result is exactly 3 points, confidence 0.40, no
\* similar_task_ids and the unavailability rationale.
C5_FailureAbsorbed ==
    Returned("estimate") =>
        /\ ~raised
        /\ DOMAIN result =
             {"suggested_points", "confidence", "similar_task_ids", "rationale"}
        /\ (logged \/ (estimates # <<>> /\ ConfidenceRaises(estimates))) =>
              result = [suggested_points |-> 3, confidence |-> 40,
                        similar_task_ids |-> <<>>,
                        rationale |-> "Unable to generate estimate at this time."]

\* C5 witness: the confidence computation raised ZeroDivisionError on two ranked
\* estimates and the except branch answered.
C5_Witness ==
    /\ Returned("estimate")
    /\ Len(estimates) >= 2
    /\ ConfidenceRaises(estimates)
    /\ logged
    /\ ~raised
    /\ result.rationale = "Unable to generate estimate at this time."

RECURSIVE CountBelow(_, _)
CountBelow(xs, v) ==
    IF xs = <<>> THEN 0
    ELSE (IF Head(xs) < v THEN 1 ELSE 0) + CountBelow(Tail(xs), v)

RECURSIVE CountAtMost(_, _)
CountAtMost(xs, v) ==
    IF xs = <<>> THEN 0
    ELSE (IF Head(xs) <= v THEN 1 ELSE 0) + CountAtMost(Tail(xs), v)

\* The k-th smallest value of xs, by rank and without sorting.
KthSmallest(xs, k) ==
    CHOOSE v \in ToSet(xs) : CountBelow(xs, v) < k /\ k <= CountAtMost(xs, v)

ConventionalMedianTruncated(xs) ==
    IF Len(xs) % 2 = 1
    THEN KthSmallest(xs, (Len(xs) + 1) \div 2)
    ELSE (KthSmallest(xs, Len(xs) \div 2) + KthSmallest(xs, Len(xs) \div 2 + 1)) \div 2

\* The returned list as rows.
SimilarRows == [i \in 1..Len(similar_tasks) |-> TaskById(similar_tasks[i])]

RankedWithEstimate == {i \in 1..Len(similar_tasks) : SimilarRows[i].estimate # Null}

\* C6: when a ranked candidate carries an estimate, suggested_points is the
\* conventional median of the ranked estimates (mean of the two middle values for
\* an even count), truncated to an integer.  Violated: two ranked estimates that
\* are both 0 give 3 points.
C6_SuggestedIsMedian ==
    (Returned("estimate") /\ RankedWithEstimate # {}) =>
        /\ estimates = EstimatesOf(WithEstimates(SimilarRows))
        /\ result.suggested_points = ConventionalMedianTruncated(estimates)

\* The words of a text: its maximal runs of non-whitespace characters, lower-cased.
WordStarts(s) ==
    {i \in 1..Len(s) : s[i] \notin Whitespace /\ (i = 1 \/ s[i - 1] \in Whitespace)}

\* The last position of the run of non-whitespace characters that holds position i.
RECURSIVE WordEnd(_, _)
WordEnd(s, i) ==
    IF i = Len(s) THEN i
    ELSE IF s[i + 1] \in Whitespace THEN i
    ELSE WordEnd(s, i + 1)

Tokens(s) == {SubSeq(s, i, WordEnd(s, i)) : i \in WordStarts(s)}

LowerWords(s) == {Lower(w) : w \in Tokens(s)}

\* The score as the four signals of the claim.
ClaimScore(t, c) ==
    (IF t.assignee # None /\ c.assignee # None /\ t.assignee = c.assignee
     THEN 100 ELSE 0)
    + 80 * Cardinality(ToSet(t.tags) \cap ToSet(c.tags))
    + Min(20 * Cardinality(LowerWords(t.title) \cap LowerWords(c.title)), 60)
    + Min(5 * Cardinality(LowerWords(t.description) \cap LowerWords(c.description)), 40)

\* The claim's score of every row against t, in the order of rows.
RECURSIVE ClaimScores(_, _)
ClaimScores(t, rows) ==
    IF rows = <<>> THEN <<>>
    ELSE <<ClaimScore(t, Head(rows))>> \o ClaimScores(t, Tail(rows))

IndexOf(id) == CHOOSE i \in 1..Len(tasks) : tasks[i].id = id

\* rows are in descending order of sc, rows of equal sc in descending updated_at.
Descending(rows, sc) ==
    \A i, j \in 1..Len(rows) :
        i < j =>
            /\ sc[i] >= sc[j]
            /\ sc[i] = sc[j] => rows[i].updated_at >= rows[j].updated_at

\* C7: the list _find_similar_tasks returns is in descending order of score, and
\* of two returned candidates with equal score the one with the larger updated_at
\* comes first.
C7_SortedByScoreThenRecency ==
    Returned("find") =>
        Descending(SimilarRows, ClaimScores(TaskById(target), SimilarRows))

\* C7 witness: two returned candidates have equal score, the one stored later was
\* modified later and is returned first.
C7_Witness ==
    /\ Returned("find")
    /\ Len(similar_tasks) >= 2
    /\ ClaimScore(TaskById(target), SimilarRows[1])
         = ClaimScore(TaskById(target), SimilarRows[2])
    /\ SimilarRows[1].updated_at > SimilarRows[2].updated_at
    /\ similar_tasks[1] > similar_tasks[2]

ScoredAs(sc) ==
    /\ \A k \in 1..Len(scored_tasks) :
          /\ scored_tasks[k].id \in Ids(tasks) \ {target}
          /\ scored_tasks[k].score = sc[IndexOf(scored_tasks[k].id)]
          /\ scored_tasks[k].score > 0
    /\ \A i \in 1..Len(tasks) :
          (tasks[i].id # target /\ sc[i] > 0)
              => \E k \in 1..Len(scored_tasks) : scored_tasks[k].id = tasks[i].id

\* C8: the score of a (target, candidate) pair is 100 for the same non-null
\* assignee, plus 80 per shared tag, plus min(20 x shared lower-cased title words,
\* 60), plus min(5 x shared lower-cased description words, 40); a candidate is
\* scored with exactly that sum, and is kept exactly when the sum is above 0.
C8_ScoreIsSumOfSignals ==
    Returned("find") => ScoredAs(ClaimScores(TaskById(target), tasks))

\* C8 witness: a candidate with the same assignee, one shared tag, four shared
\* title words and nine shared description words is scored 100 + 80 + 60 + 40.
C8_Witness ==
    /\ Returned("find")
    /\ \E k \in 1..Len(scored_tasks) :
          /\ scored_tasks[k].score = 280
          /\ Cardinality(LowerWords(TaskById(target).title)
                          \cap LowerWords(TaskById(scored_tasks[k].id).title)) = 4
          /\ Cardinality(LowerWords(TaskById(target).description)
                          \cap LowerWords(TaskById(scored_tasks[k].id).description)) = 9

\* Row e ranks strictly before row r, for the scores sc of the stored rows.
RanksBefore(sc, e, r) ==
    \/ sc[e] > sc[r]
    \/ sc[e] = sc[r] /\ tasks[e].updated_at > tasks[r].updated_at

\* The stored rows other than the target that score above 0.
Similar(sc) == {i \in 1..Len(tasks) : tasks[i].id # target /\ sc[i] > 0}

TopLimit(sc) ==
    /\ Len(similar_tasks) <= limit
    /\ Len(similar_tasks) = Min(limit, Cardinality(Similar(sc)))
    /\ \A i \in 1..Len(similar_tasks) : similar_tasks[i] = scored_tasks[i].id
    /\ \A e \in Similar(sc) :
          tasks[e].id \notin ToSet(similar_tasks) =>
              \A i \in 1..Len(similar_tasks) :
                  ~RanksBefore(sc, e, IndexOf(similar_tasks[i]))

\* C9: _find_similar_tasks(T, limit) returns at most limit candidates, and they
\* are the first limit entries of the full ranking: no candidate left out ranks
\* before one that is returned.
C9_TopLimitOfRanking ==
    Returned("find") => TopLimit(ClaimScores(TaskById(target), tasks))

\* C9 witness: two candidates are similar, the limit is 1, and the one returned
\* is the one the store enumerates second.
C9_Witness ==
    /\ Returned("find")
    /\ limit = 1
    /\ Len(scored_tasks) = 2
    /\ Len(similar_tasks) = 1
    /\ similar_tasks[1] > scored_tasks[2].id
    /\ scored_tasks[1].score > scored_tasks[2].score

\* C10: when a ranked candidate carries an estimate, similar_task_ids is the ids
\* of the first min(5, number of ranked candidates) ranked candidates, in rank
\* order, with or without an estimate.  Violated: two ranked estimates that are
\* both 0 give an empty similar_task_ids.
C10_CitesTopRanked ==
    (Returned("estimate") /\ RankedWithEstimate # {}) =>
        /\ Len(result.similar_task_ids) = Min(5, Len(similar_tasks))
        /\ \A i \in 1..Len(result.similar_task_ids) :
              result.similar_task_ids[i] = similar_tasks[i]

\* The level word of the claims: high from 0.80, medium from 0.65, low below.
ClaimLevel(q) ==
    IF q.num * 100 >= 80 * q.den THEN "high"
    ELSE IF q.num * 100 >= 65 * q.den THEN "medium"
    ELSE "low"

\* C11: for an estimate count of at least 1, both rationale composers place the
\* level word 'high' for confidence >= 0.80, 'medium' for 0.65 <= confidence <
\* 0.80 and 'low' otherwise.  Violated: _generate_estimate_rationale says medium
\* for a confidence of 0.60.
C11_LevelWord ==
    /\ probe.fn = "_generate_estimate_rationale" =>
          probe.out = EstimateRationaleText(probe.args.estimate_count,
                                            probe.args.median_estimate,
                                            ClaimLevel(probe.args.confidence))
    /\ probe.fn = "_generate_rationale" =>
          probe.out = GenerateRationaleText(probe.args.estimate_count,
                                            probe.args.median_estimate,
                                            ClaimLevel(probe.args.confidence))

\* SimilarityService._generate_rationale alone places the level word of the
\* thresholds 0.80 and 0.65.
GenerateRationaleLevelWord ==
    probe.fn = "_generate_rationale" =>
        probe.out = GenerateRationaleText(probe.args.estimate_count,
                                          probe.args.median_estimate,
                                          ClaimLevel(probe.args.confidence))

\* _generate_estimate_rationale differs from those thresholds exactly for
\* confidences in [0.60, 0.65).
EstimateRationaleDiffersBelow065 ==
    probe.fn = "_generate_estimate_rationale" =>
        ((probe.out # EstimateRationaleText(probe.args.estimate_count,
                                            probe.args.median_estimate,
                                            ClaimLevel(probe.args.confidence)))
         <=> (probe.args.confidence.num >= 60 /\ probe.args.confidence.num < 65))

\* C12: a call that violates the programming contract (a None target, a negative
\* limit passed to _find_similar_tasks) is rejected with a failure and is not
\* turned into a normal result or into the fallback.  Violated: a negative limit
\* returns a list.
C12_MisuseRejected ==
    /\ (pc = "done" /\ op \in {"estimate_none", "find_none"}) =>
          raised /\ result = Nothing.result
    /\ (Returned("find") /\ limit < 0) => raised

\* With limit = -1 and two scored candidates, the first is returned as if the
\* limit had been 1.
NegativeLimitReturnsCandidates ==
    /\ Returned("find")
    /\ limit = -1
    /\ ~raised
    /\ Len(scored_tasks) = 2
    /\ similar_tasks = <<scored_tasks[1].id>>

\* A None target never yields a dictionary: the AttributeError reaches the caller.
NoneTargetRaises ==
    (pc = "done" /\ op \in {"estimate_none", "find_none"}) =>
        raised /\ result = Nothing.result

C14_SharedTagNeverLowers ==
    probe.fn = "similarity_score" => probe.out.with >= probe.out.without

\* C14 witness: a candidate without tags that already scores, and scores 80 more
\* once it carries a tag of the target.
C14_Witness ==
    /\ probe.fn = "similarity_score"
    /\ probe.args.candidate.tags = <<>>
    /\ probe.out.without > 0
    /\ probe.out.with = probe.out.without + 80

\* What generate_estimate returns for the task id when it runs alone.
Alone(id) ==
    Outcomes(TopTasks(Ranking(TaskById(id), tasks), DefaultLimit),
             EstimatesOf(WithEstimates(TopTasks(Ranking(TaskById(id), tasks),
                                                DefaultLimit))))

\* C15: however concurrent generate_estimate calls for different targets
\* interleave over an unchanging store, each call whose query did not fail
\* returns what it would return when run alone.
C15_InterleavingIsInvisible ==
    \A p \in Callers :
        (calls[p].pc = "done" /\ ~calls[p].failed) =>
            calls[p].result \in Alone(calls[p].target)

\* C15 witness: two calls that were in progress at the same time have both
\* returned, each a data-based result, and the two results differ.
C15_Witness ==
    \E p, q \in Callers :
        /\ p # q
        /\ calls[p].pc = "done" /\ calls[q].pc = "done"
        /\ calls[p].overlapped /\ calls[q].overlapped
        /\ ~calls[p].failed /\ ~calls[q].failed
        /\ calls[p].result.similar_task_ids # <<>>
        /\ calls[q].result.similar_task_ids # <<>>
        /\ calls[p].result # calls[q].result

\* C16: a call of _find_similar_tasks or generate_estimate leaves the stored tasks
\* as they were: no field of any task changes and no row is added or removed,
\* whether the call returns data, the fallback or the error fallback.
C16_EntryPointsOnlyRead ==
    [][(pc' = "done" /\ op' \in {"find", "estimate"}) =>
           (tasks' = tasks /\ activities' = activities)]_vars

\* C16 witness: generate_estimate answered from its except branch over a store of
\* tasks saved before the current clock value.
C16_Witness ==
    /\ Returned("estimate")
    /\ logged
    /\ Len(tasks) >= 2
    /\ \E i \in 1..Len(tasks) : tasks[i].updated_at < now

DoneWithoutEstimate(row) == row.status = "DONE" /\ row.estimate = Null

DoneCreationRejected ==
    Returned("create") /\ raised /\ DoneWithoutEstimate(result.instance)

\* The activities the save that just returned has written.
SavedActivities == SubSeq(activities, result.activity_count + 1, Len(activities))

SavedFor(field_name) ==
    {k \in DOMAIN SavedActivities : SavedActivities[k].field = field_name}

ClaimTracked == {"status", "assignee", "estimate", "description"}

\* C18: a save of an existing task that goes through records exactly one activity
\* for each of status, assignee, estimate and description whose value differs
\* from the stored one, with the values before and after, and no other activity;
\* so none at all when only untracked fields such as the title changed.
C18_OneActivityPerChangedField ==
    (Returned("save") /\ ~raised) =>
        /\ \A f \in ClaimTracked :
             Cardinality(SavedFor(f)) =
                 IF result.stored[f] # result.instance[f] THEN 1 ELSE 0
        /\ \A k \in DOMAIN SavedActivities :
             /\ SavedActivities[k].task = target
             /\ SavedActivities[k].field \in ClaimTracked
             /\ SavedActivities[k].type = ActivityTypeOf(SavedActivities[k].field)
             /\ SavedActivities[k].before =
                    SerializeFieldValue(SavedActivities[k].field,
                                        result.stored[SavedActivities[k].field])
             /\ SavedActivities[k].after =
                    SerializeFieldValue(SavedActivities[k].field,
                                        result.instance[SavedActivities[k].field])

\* One save changed all four tracked fields and the title.
C18_Witness ==
    /\ Returned("save")
    /\ ~raised
    /\ Len(SavedActivities) = 4
    /\ result.stored.title # result.instance.title

\* A save that changed the title and the tags only wrote no activity.
UntrackedChangeUnrecorded ==
    /\ Returned("save")
    /\ ~raised
    /\ result.stored.title # result.instance.title
    /\ result.stored.tags # result.instance.tags
    /\ SavedActivities = <<>>

\* Target t and candidate c have no assignee, tag, title word or description word
\* in common.
SharesNothing(t, c) ==
    /\ ~(t.assignee # None /\ t.assignee = c.assignee)
    /\ ToSet(t.tags) \cap ToSet(c.tags) = {}
    /\ LowerWords(t.title) \cap LowerWords(c.title) = {}
    /\ LowerWords(t.description) \cap LowerWords(c.description) = {}

\* The stored rows other than the target.
Population == {i \in 1..Len(tasks) : tasks[i].id # target}

\* C19: every candidate _find_similar_tasks returns scores at least 1 and shares
\* something with the target; when the target shares nothing with any other stored
\* task the returned list is empty and generate_estimate returns the fixed
\* fallback.
C19_OnlySimilarReturned ==
    (Returned("find") \/ (Returned("estimate") /\ ~logged)) =>
        /\ \A i \in 1..Len(similar_tasks) :
             /\ ClaimScore(TaskById(target), SimilarRows[i]) >= 1
             /\ ~SharesNothing(TaskById(target), SimilarRows[i])
        /\ (\A i \in Population : SharesNothing(TaskById(target), tasks[i])) =>
             /\ similar_tasks = <<>>
             /\ Returned("estimate") => result = FallbackResult

\* Two other tasks are stored, the target shares nothing with either, and
\* generate_estimate returned the fallback.
C19_Witness ==
    /\ Returned("estimate")
    /\ ~logged
    /\ Cardinality(Population) = 2
    /\ \A i \in Population : SharesNothing(TaskById(target), tasks[i])
    /\ \E i \in Population : tasks[i].estimate # Null
    /\ result = FallbackResult

\* Of two other tasks one shares nothing with the target and is left out, the
\* other is returned.
UnrelatedLeftOut ==
    /\ Returned("find")
    /\ limit = 2
    /\ Len(similar_tasks) = 1
    /\ \E i \in Population : SharesNothing(TaskById(target), tasks[i])

\* Sum of the squared deviations from the mean, times n^2: sum((n*x - sum(xs))^2).
ScaledSquaredDeviations(xs) ==
    Sum([i \in 1..Len(xs) |-> (Len(xs) * xs[i] - Sum(xs)) * (Len(xs) * xs[i] - Sum(xs))])

\* Mean squared deviation from the mean, divisor n.
PopulationVariance(xs) ==
    [num |-> ScaledSquaredDeviations(xs), den |-> Len(xs) * Len(xs) * Len(xs)]

\* Squared deviations from the mean over n - 1.
SampleVariance(xs) ==
    [num |-> ScaledSquaredDeviations(xs), den |-> Len(xs) * Len(xs) * (Len(xs) - 1)]

\* (1 - min(v / max(xs)^2, 1)) * 0.10 for the variance v, and 0.05 for one estimate.
ClaimConsistency(xs, v) ==
    IF Len(xs) = 1 THEN [num |-> 5, den |-> 100]
    ELSE [num |-> v.den * MaxOf(xs) * MaxOf(xs)
                  - Min(v.num, v.den * MaxOf(xs) * MaxOf(xs)),
          den |-> 10 * v.den * MaxOf(xs) * MaxOf(xs)]

RECURSIVE Gcd(_, _)
Gcd(a, b) == IF b = 0 THEN a ELSE Gcd(b, a % b)

\* A fraction in lowest terms.
Lowest(q) ==
    IF Gcd(q.num, q.den) = 0 THEN q
    ELSE [num |-> q.num \div Gcd(q.num, q.den), den |-> q.den \div Gcd(q.num, q.den)]

SameFraction(p, q) == Lowest(p) = Lowest(q)

\* C20: the consistency factor of n > 1 estimates is
\* (1 - min(V / max(estimates)^2, 1)) * 0.10 with V the population variance
\* (divisor n), and 0.05 for one estimate.  Violated: estimates 0 and 5 give 0.05
\* where the claim gives 0.075, and estimates 0 and 0 give no factor at all.
C20_ConsistencyFromPopulationVariance ==
    probe.fn = "consistency_factor" =>
        /\ ~probe.out.raised
        /\ SameFraction(probe.out.value,
                        ClaimConsistency(probe.args.estimates,
                                         PopulationVariance(probe.args.estimates)))

\* What the code computes: the factor of the sample variance (divisor n - 1),
\* unless the largest estimate is 0.
ConsistencyFromSampleVariance ==
    probe.fn = "consistency_factor" =>
        IF Len(probe.args.estimates) > 1 /\ MaxOf(probe.args.estimates) = 0
        THEN probe.out.raised
        ELSE /\ ~probe.out.raised
             /\ SameFraction(probe.out.value,
                             ClaimConsistency(probe.args.estimates,
                                              SampleVariance(probe.args.estimates)))

\* Estimates 0 and 5: the factor is 0.05, the population variance would give 0.075.
SampleVarianceUsed ==
    /\ probe.fn = "consistency_factor"
    /\ probe.args.estimates = <<0, 5>>
    /\ ~probe.out.raised
    /\ SameFraction(probe.out.value, [num |-> 50, den |-> 1000])
    /\ SameFraction(ClaimConsistency(<<0, 5>>, PopulationVariance(<<0, 5>>)),
                    [num |-> 75, den |-> 1000])

\* Two estimates of 0: the division of line 358 raises.
ZeroEstimatesRaise ==
    /\ probe.fn = "consistency_factor"
    /\ probe.args.estimates = <<0, 0>>
    /\ probe.out.raised

\* 0.65 + min(n/5, 1) * 0.15 + min(m/10, 1) * 0.10, in thousandths.
ClaimFixed(n, m) ==
    650 + (IF n >= 5 THEN 150 ELSE 30 * n) + (IF m >= 10 THEN 100 ELSE 10 * m)

\* min(fixed/1000 + factor, 0.95), for a factor whose denominator is a multiple
\* of 1000.
ClaimConfidence(fixed, factor) ==
    IF (fixed * (factor.den \div 1000) + factor.num) * 100 > 95 * factor.den
    THEN [num |-> 95, den |-> 100]
    ELSE [num |-> fixed * (factor.den \div 1000) + factor.num, den |-> factor.den]

\* C21: for at least one estimate the confidence before rounding is
\* min(0.65 + min(n/5, 1)*0.15 + consistency_factor + min(m/10, 1)*0.10, 0.95),
\* n the number of estimates and m the number of ranked candidates.  Violated:
\* for two estimates of 0 no confidence is returned.
C21_ConfidenceFormula ==
    probe.fn = "_calculate_estimate_confidence" =>
        /\ ~probe.out.raised
        /\ SameFraction(probe.out.value,
               ClaimConfidence(ClaimFixed(Len(probe.args.estimates), probe.args.total),
                               ConsistencyFactor(probe.args.estimates).value))

\* The formula holds of every call that returns, and a call raises only when two
\* or more estimates are all 0.
ConfidenceFormulaWhereReturned ==
    probe.fn = "_calculate_estimate_confidence" =>
        IF probe.out.raised
        THEN Len(probe.args.estimates) > 1 /\ MaxOf(probe.args.estimates) = 0
        ELSE SameFraction(probe.out.value,
                 ClaimConfidence(ClaimFixed(Len(probe.args.estimates), probe.args.total),
                                 ConsistencyFactor(probe.args.estimates).value))

\* Six estimates among twenty similar tasks: the sum is above 0.95 and is capped.
ConfidenceCapReached ==
    /\ probe.fn = "_calculate_estimate_confidence"
    /\ Len(probe.args.estimates) = 6
    /\ probe.args.total = 20
    /\ ~probe.out.raised
    /\ SameFraction(probe.out.value, [num |-> 95, den |-> 100])

\* Estimates 0, 0 and 0: the call raises.
ConfidenceRaisedReached ==
    /\ probe.fn = "_calculate_estimate_confidence"
    /\ probe.args.estimates = <<0, 0, 0>>
    /\ probe.out.raised

\* C22: whenever a ranked candidate carries an estimate, generate_estimate returns
\* the data-based suggestion (the median, a confidence from 0.65 to 0.95, the
\* cited ids) and no fallback, and calculate_estimate_suggestion does not raise.
\* Violated: two ranked estimates that are both 0.
C22_DataResultForAnyEstimates ==
    /\ (Returned("estimate") /\ RankedWithEstimate # {}) =>
           /\ ~logged
           /\ result \notin {FallbackResult, ErrorResult}
           /\ result.suggested_points = ConventionalMedianTruncated(estimates)
           /\ result.confidence >= 65 /\ result.confidence <= 95
           /\ result.similar_task_ids # <<>>
    /\ (Returned("suggest") /\ estimates # <<>>) => ~raised

\* Two ranked candidates whose estimates are both 0: generate_estimate answers with
\* the error fallback.
ZeroEstimatesGiveErrorFallback ==
    /\ Returned("estimate")
    /\ estimates = <<0, 0>>
    /\ logged
    /\ result = ErrorResult

\* Two candidates found by the query, both with estimate 0:
\* calculate_estimate_suggestion raises.
ZeroEstimatesSuggestionRaises ==
    /\ Returned("suggest")
    /\ estimates = <<0, 0>>
    /\ raised

\* The data-based result is returned whenever the largest ranked estimate is
\* above 0 or a single estimate is ranked.
DataResultUnlessZeroDivision ==
    /\ (/\ Returned("estimate")
        /\ RankedWithEstimate # {}
        /\ ~ConfidenceRaises(EstimatesOf(WithEstimates(SimilarRows)))) =>
           /\ ~logged
           /\ result.confidence >= 65 /\ result.confidence <= 95
    /\ (Returned("suggest") /\ estimates # <<>> /\ ~ConfidenceRaises(estimates)) =>
           ~raised

\* p is the larger fraction.
Above(p, q) == Lowest(p).num * Lowest(q).den > Lowest(q).num * Lowest(p).den

NotAllIdentical(xs) == \E i, j \in 1..Len(xs) : xs[i] # xs[j]

\* C23: for the same number n > 1 of estimates and the same number of similar
\* tasks, _calculate_confidence returns a strictly higher confidence for identical
\* estimates than for estimates that are not all identical.  Violated: identical
\* estimates of 0 give no confidence, and four estimates among ten similar tasks
\* give 0.95 whether they are 8, 8, 8, 8 or 8, 8, 8, 5.
C23_IdenticalEstimatesHigher ==
    (probe.fn = "_calculate_confidence" /\ NotAllIdentical(probe.args.estimates)) =>
        /\ ~probe.out.identical.raised
        /\ ~probe.out.estimates.raised
        /\ Above(probe.out.identical.value, probe.out.estimates.value)

\* Identical estimates above 0 never give the lower confidence, and give the
\* strictly higher one unless the other confidence is at the cap of 0.95.
IdenticalEstimatesNotLower ==
    (/\ probe.fn = "_calculate_confidence"
     /\ NotAllIdentical(probe.args.estimates)
     /\ probe.args.identical[1] > 0) =>
        /\ ~probe.out.identical.raised
        /\ ~probe.out.estimates.raised
        /\ \/ Above(probe.out.identical.value, probe.out.estimates.value)
           \/ /\ SameFraction(probe.out.estimates.value, [num |-> 95, den |-> 100])
              /\ SameFraction(probe.out.identical.value, [num |-> 95, den |-> 100])

\* Estimates 8, 8, 8, 5 and 8, 8, 8, 8 among ten similar tasks: both 0.95.
BothAtTheCap ==
    /\ probe.fn = "_calculate_confidence"
    /\ probe.args.estimates = <<8, 8, 8, 5>>
    /\ probe.args.identical = <<8, 8, 8, 8>>
    /\ probe.args.total = 10
    /\ SameFraction(probe.out.estimates.value, probe.out.identical.value)

\* Estimates 0, 0 against 3, 5: the identical ones raise.
IdenticalZerosRaise ==
    /\ probe.fn = "_calculate_confidence"
    /\ probe.args.estimates = <<3, 5>>
    /\ probe.args.identical = <<0, 0>>
    /\ probe.out.identical.raised
    /\ ~probe.out.estimates.raised

\* The level of a confidence returned in hundredths.
ReturnedLevel(hundredths) == ClaimLevel([num |-> hundredths, den |-> 100])

\* C24: in every data-based result of generate_estimate and of
\* calculate_estimate_suggestion the level word of the rationale is the level of
\* the returned (rounded) confidence.  Violated: estimates 1 and 5 of two ranked
\* candidates give confidence 0.80 with a rationale that says medium.
C24_RationaleAgreesWithReturned ==
    /\ probe.fn = "generate_estimate" =>
          probe.out.rationale =
              EstimateRationaleText(Len(probe.args.estimates),
                                    Median(probe.args.estimates),
                                    ReturnedLevel(probe.out.confidence))
    /\ probe.fn = "calculate_estimate_suggestion" =>
          probe.out.rationale =
              GenerateRationaleText(Len(probe.args.estimates),
                                    Median(probe.args.estimates),
                                    ReturnedLevel(probe.out.confidence))

\* generate_estimate returned 0.80 and a rationale of medium confidence.
RoundedHighSaysMedium ==
    /\ probe.fn = "generate_estimate"
    /\ probe.args.estimates = <<1, 5>>
    /\ probe.args.total = 2
    /\ probe.out.confidence = 80
    /\ probe.out.rationale =
           EstimateRationaleText(2, [num |-> 6, den |-> 2], "medium")

\* calculate_estimate_suggestion returned 0.80 and a rationale of medium confidence.
SuggestionRoundedHighSaysMedium ==
    /\ probe.fn = "calculate_estimate_suggestion"
    /\ probe.out.confidence = 80
    /\ probe.out.rationale =
           GenerateRationaleText(Len(probe.args.estimates),
                                 Median(probe.args.estimates), "medium")

\* The level word is always that of the confidence before rounding.
RationaleAgreesWithUnrounded ==
    /\ probe.fn = "generate_estimate" =>
          probe.out.rationale =
              EstimateRationaleText(Len(probe.args.estimates),
                  Median(probe.args.estimates),
                  ClaimLevel(EstimateConfidence(probe.args.estimates, probe.args.total)))
    /\ probe.fn = "calculate_estimate_suggestion" =>
          probe.out.rationale =
              GenerateRationaleText(Len(probe.args.estimates),
                  Median(probe.args.estimates),
                  ClaimLevel(CalculateConfidence(probe.args.estimates, probe.args.total)))

\* Two candidates of the probe score the same above 0 and carry the same
\* updated_at.
FullTie ==
    \E i, j \in 2..4 :
        /\ i # j
        /\ ClaimScore(probe.args.rows[1], probe.args.rows[i]) > 0
        /\ ClaimScore(probe.args.rows[1], probe.args.rows[i])
               = ClaimScore(probe.args.rows[1], probe.args.rows[j])
        /\ probe.args.rows[i].updated_at = probe.args.rows[j].updated_at

\* C25 as stated: whatever the order in which the store enumerates the same
\* candidates, _find_similar_tasks returns the same list, also when two candidates
\* have equal score and equal updated_at.
C25_AnyEnumerationSameRanking ==
    probe.fn = "_find_similar_tasks" => probe.out.enumerated = probe.out.stored

\* C25, amended: whatever the order in which the store enumerates the same
\* candidates, _find_similar_tasks returns the same list, provided no two
\* candidates with the same score above 0 have the same updated_at.
C25_SameRankingWithoutFullTies ==
    (probe.fn = "_find_similar_tasks" /\ ~FullTie) =>
        probe.out.enumerated = probe.out.stored

\* C25 witness: three candidates are returned, two of them with the same score
\* and different updated_at, enumerated in reverse order, and the lists agree.
C25_Witness ==
    /\ probe.fn = "_find_similar_tasks"
    /\ ~FullTie
    /\ probe.args.enumeration = <<4, 3, 2, 1>>
    /\ Len(probe.out.stored) = 3
    /\ \E i, j \in 2..4 :
          /\ i # j
          /\ probe.args.rows[i].assignee = probe.args.rows[j].assignee
          /\ probe.args.rows[i].updated_at # probe.args.rows[j].updated_at
    /\ probe.out.enumerated = probe.out.stored

\* Two candidates tie in score and updated_at and come out in the order in which
\* they were enumerated.
FullTieFollowsEnumeration ==
    /\ probe.fn = "_find_similar_tasks"
    /\ FullTie
    /\ probe.out.enumerated # probe.out.stored

\* The activities the step has appended.
Appended == SubSeq(activities', Len(activities) + 1, Len(activities'))

\* C26: when saves of the same stored task interleave, the post_save of each
\* still finds the entry its pre_save put into _task_pre_save_state and records
\* exactly one activity for every tracked field whose value differs from the one
\* its UPDATE replaced, with that value as `before`.
C26_InterleavedSavesRecordTheirChanges ==
    [][\A p \in Callers :
          (savers[p].pc = "post_save" /\ ~savers[p].created /\ savers'[p].pc = "saved") =>
              /\ savers[p].instance.id \in DOMAIN task_pre_save_state
              /\ \A f \in ClaimTracked :
                    Cardinality({k \in DOMAIN Appended : Appended[k].field = f}) =
                        IF savers[p].replaced[1][f] # savers[p].instance[f] THEN 1 ELSE 0
              /\ \A k \in DOMAIN Appended :
                    Appended[k].before =
                        SerializeFieldValue(Appended[k].field,
                                            savers[p].replaced[1][Appended[k].field])]_vars

\* A save has written a changed tracked field and is about to run task_post_save,
\* and the entry of its task is gone from _task_pre_save_state: the post_save of
\* another save of the same task has deleted it.
EntryConsumedByOtherSave ==
    \E p \in Callers :
        /\ savers[p].pc = "post_save"
        /\ ~savers[p].created
        /\ savers[p].instance.id \notin DOMAIN task_pre_save_state
        /\ \E f \in ClaimTracked : savers[p].replaced[1][f] # savers[p].instance[f]

\* Two saves of the same task are both between task_pre_save and the UPDATE: the
\* second pre_save has written over the entry of the first.
EntryOverwrittenByOtherSave ==
    \E p, q \in Callers :
        /\ p # q
        /\ savers[p].pc = "write" /\ savers[q].pc = "write"
        /\ ~savers[p].created /\ ~savers[q].created
        /\ savers[p].instance.id = savers[q].instance.id

\* C27: two callers that are adding tasks to the same project never hold the same
\* generated key, and no save of a new task raises.
C27_ConcurrentCreationsGetDistinctKeys ==
    /\ \A p, q \in Callers :
          (p # q /\ Creating(p) /\ Creating(q)
             /\ savers[p].key.code = savers[q].key.code) =>
                 savers[p].key # savers[q].key
    /\ \A p \in Callers : Creating(p) => savers[p].pc # "raised"

\* Two callers hold the same generated key: both read the stored keys before
\* either inserted its row.
SameKeyComputedTwice ==
    \E p, q \in Callers :
        /\ p # q /\ Creating(p) /\ Creating(q)
        /\ savers[p].key = savers[q].key
        /\ savers[p].pc = "write" /\ savers[q].pc = "write"

\* The INSERT of a valid new task was rejected by unique_task_key: the other
\* caller has stored the same key.
CreationFailsOnUniqueKey ==
    \E p, q \in Callers :
        /\ p # q /\ Creating(p) /\ savers[p].pc = "raised"
        /\ FullCleanPasses(savers[p].instance)
        /\ Creating(q) /\ savers[q].pc \in {"post_save", "saved"}
        /\ savers[q].key = savers[p].key

\* The stored keys are distinct and, within a project, number the tasks 1, 2, ...
\* in the order of their insertion.
StoredKeysSequential ==
    \A i \in DOMAIN keys :
        keys[i].number = Cardinality({j \in 1..i : keys[j].code = keys[i].code})

\* The status changes the claim allows.
ClaimTransitions ==
    { <<"PENDING", "PROCESSING">>, <<"PROCESSING", "COMPLETED">>,
      <<"PROCESSING", "FAILED">> }

\* C28: the status of an AIOperation changes only from PENDING to PROCESSING and
\* from PROCESSING to COMPLETED or FAILED, so a COMPLETED or FAILED operation
\* keeps its status, also when its id is delivered to a worker again.
C28_StatusOnlyMovesForward ==
    [][\A i \in DOMAIN operations :
          operations'[i].status # operations[i].status =>
              <<operations[i].status, operations'[i].status>> \in ClaimTransitions]_vars

\* An operation is COMPLETED and a worker has the redelivered message of it on
\* the queue: the next StartProcessing sets it back to PROCESSING.
CompletedOperationRedelivered ==
    \E k \in DOMAIN queue :
        /\ queue[k].delivery > 1
        /\ operations[queue[k].operation_id].status = "COMPLETED"

\* An operation is in an end state.
Ended(i) == i \in DOMAIN operations /\ operations[i].status \in {"COMPLETED", "FAILED"}

\* C29: every AIOperation that smart_summary_view has created is eventually
\* COMPLETED or FAILED, while the workers keep running queued tasks.
C29_EveryOperationEnds ==
    \A i \in 1..MaxOperations : (i \in DOMAIN operations) ~> Ended(i)

\* An operation is PENDING, no message of it is on the queue and no worker holds
\* one: the enqueueing failed after the row was created.
PendingAndNeverQueued ==
    \E i \in DOMAIN operations :
        /\ operations[i].status = "PENDING"
        /\ \A k \in DOMAIN queue : queue[k].operation_id # i
        /\ \A w \in Callers :
              workers[w].pc = "processing" => workers[w].message.operation_id # i

\* Every operation whose id was put on the queue is eventually COMPLETED or
\* FAILED.
QueuedOperationEnds ==
    \A i \in 1..MaxOperations :
        (\E k \in DOMAIN queue : queue[k].operation_id = i) ~> Ended(i)

\* C30: a COMPLETED operation has its result and completed_at; a PENDING,
\* PROCESSING or FAILED operation has neither.
C30_ResultGoesWithCompleted ==
    \A i \in DOMAIN operations :
        IF operations[i].status = "COMPLETED"
        THEN operations[i].result # Null /\ operations[i].completed_at # Null
        ELSE operations[i].result = Null /\ operations[i].completed_at = Null

\* A FAILED operation holds the result and completed_at of an earlier run.
FailedWithResult ==
    \E i \in DOMAIN operations :
        /\ operations[i].status = "FAILED"
        /\ operations[i].result # Null
        /\ operations[i].completed_at # Null

\* A COMPLETED operation always has its result and completed_at.
CompletedHasResult ==
    \A i \in DOMAIN operations :
        operations[i].status = "COMPLETED" =>
            operations[i].result # Null /\ operations[i].completed_at # Null

\* Where the confidence computation does not divide by zero, the suggestion is the
\* truncated conventional median and the citation is the head of the ranking.
MedianAndCitationUnlessZeroDivision ==
    (/\ Returned("estimate")
     /\ RankedWithEstimate # {}
     /\ ~ConfidenceRaises(EstimatesOf(WithEstimates(SimilarRows)))) =>
        /\ result.suggested_points = ConventionalMedianTruncated(estimates)
        /\ Len(result.similar_task_ids) = Min(5, Len(similar_tasks))
        /\ \A i \in 1..Len(result.similar_task_ids) :
              result.similar_task_ids[i] = similar_tasks[i]

\* An even count of ranked estimates whose two middle values differ by an odd
\* amount: the mean is truncated.
MedianTruncatedReached ==
    /\ Returned("estimate")
    /\ Len(estimates) = 2
    /\ (estimates[1] + estimates[2]) % 2 = 1
    /\ result.suggested_points * 2 + 1 = estimates[1] + estimates[2]

====
